---- MODULE Spec2Model ----
(***************************************************************************)
(* Type-symbol registry (CustomTypes), versioned completion cache          *)
(* (TypeCache), candidate builders (BaseTypeProcess / CustomTypeProcess),  *)
(* the document-event handlers of the extension (CustomTypeSearch,         *)
(* activate) and the three completion providers.                           *)
(*                                                                         *)
(* Modelling conventions                                                   *)
(*  - a JavaScript Map<string, V> is a function whose DOMAIN is the set of *)
(*    keys present; the insertion order of a Map is not represented, so a  *)
(*    list produced by iterating a Map is a bag / set of its elements;     *)
(*  - a string built by concatenation is the sequence of its parts;        *)
(*  - a CompletionItem[] object is identified by the serial number `id`    *)
(*    it received when its producer ran (object identity);                 *)
(*  - `result` is the observable outcome of the last call: which operation *)
(*    ran (op), with which argument (arg), whether it threw, and what it   *)
(*    returned (value); for the void removeAllFileData, value is the       *)
(*    number of entries the call deleted.                                  *)
(***************************************************************************)
EXTENDS Integers, Sequences, FiniteSets, Bags, TLC

\* ---------------------------------------------------------------- bounds
MaxVersion == 4
MaxEntries == 2
MaxLists == 2
MaxCacheVersion == 2
MaxExtVersion == 4
MaxRequestLists == 6

\* ------------------------------------------------------- input universes
Files == {"a.py", "b.py"}
Names == {"Foo", "Bar"}
BaseClassLists == {<< >>, <<"Base">>}
ConstraintLists == {<< >>, <<"int">>}
OriginalTypes == {"List[int]"}
MethodTables == {[run |-> [params |-> <<"self">>, returnType |-> "Any"]]}
LiteralValueLists == {<<"a", "b">>}
Undefined == "undefined"

\* TextDocument objects: uri.toString(), uri.fsPath, languageId
DocA == [uri |-> "file:///a.py", fsPath |-> "a.py", languageId |-> "python"]
DocB == [uri |-> "file:///b.py", fsPath |-> "b.py", languageId |-> "python"]
PythonDocs == {DocA, DocB}
\* a document of another language, and the absence of an active editor
DocN == [uri |-> "file:///n.md", fsPath |-> "n.md", languageId |-> "markdown"]
NoEditor == [uri |-> Undefined, fsPath |-> Undefined, languageId |-> Undefined]

\* ----------------------------------------------------------------- strings
\* A string the code only compares is an atom.  Where the code reads the
\* characters of a string (a regular expression, split, trim), the string
\* is the sequence of its characters.

LowerCase == {"a", "b", "c", "d", "e", "f", "g", "h", "i", "j", "k", "l", "m", "n", "o", "p", "q", "r", "s", "t", "u", "v", "w", "x", "y", "z"}
UpperCase == {"A", "B", "C", "D", "E", "F", "G", "H", "I", "J", "K", "L", "M", "N", "O", "P", "Q", "R", "S", "T", "U", "V", "W", "X", "Y", "Z"}
Digits == {"0", "1", "2", "3", "4", "5", "6", "7", "8", "9"}
\* [a-zA-Z_] and [a-zA-Z0-9_]
IdentifierStart == LowerCase \cup UpperCase \cup {"_"}
IdentifierPart == IdentifierStart \cup Digits
\* \s
WhiteSpace == {" ", "\t"}

Lowest(a, b) == IF a < b THEN a ELSE b
Highest(a, b) == IF a > b THEN a ELSE b
Clamp(n, len) == Lowest(Highest(n, 0), len)

\* String.prototype.substring(start, end)
substring(text, start, end) ==
    SubSeq(text, Lowest(Clamp(start, Len(text)), Clamp(end, Len(text))) + 1,
           Highest(Clamp(start, Len(text)), Clamp(end, Len(text))))

\* String.prototype.trim()
trim(text) ==
    LET inked == {i \in 1..Len(text) : text[i] \notin WhiteSpace}
    IN  IF inked = {} THEN << >>
        ELSE SubSeq(text, CHOOSE i \in inked : \A j \in inked : i <= j,
                    CHOOSE i \in inked : \A j \in inked : i >= j)

AllIn(text, from, to, chars) ==
    \A i \in from..to : i \in 1..Len(text) /\ text[i] \in chars

\* text has `word` at index at (1-based)
HasAt(text, at, word) ==
    /\ at >= 1 /\ at + Len(word) - 1 <= Len(text)
    /\ SubSeq(text, at, at + Len(word) - 1) = word

\* the characters of the atoms whose characters the analysers read
Spelling ==
    "" :> << >>
    @@ "m" :> << "m" >>
    @@ "typing" :> << "t", "y", "p", "i", "n", "g" >>
    @@ "pkg.Shape" :> << "p", "k", "g", ".", "S", "h", "a", "p", "e" >>
    @@ "Foo" :> << "F", "o", "o" >>
    @@ "Bar" :> << "B", "a", "r" >>
    @@ "Base" :> << "B", "a", "s", "e" >>
    @@ "B" :> << "B" >>
    @@ "W" :> << "W" >>
    @@ "Widget" :> << "W", "i", "d", "g", "e", "t" >>
    @@ "helper" :> << "h", "e", "l", "p", "e", "r" >>
    @@ "List" :> << "L", "i", "s", "t" >>
    @@ "Base as B" :> << "B", "a", "s", "e", " ", "a", "s", " ", "B" >>
    @@ "Widget as W" :> << "W", "i", "d", "g", "e", "t", " ", "a", "s", " ", "W" >>
    @@ "Shape" :> << "S", "h", "a", "p", "e" >>
    @@ "pkg" :> << "p", "k", "g" >>
    @@ "e" :> << "e" >>

Chars(string) == Spelling[string]
Text(chars) == CHOOSE string \in DOMAIN Spelling : Spelling[string] = chars

\* String.prototype.split(separator), on characters
RECURSIVE split(_, _)
split(text, separator) ==
    LET found == {i \in 1..Len(text) : HasAt(text, i, separator)}
        at == CHOOSE i \in found : \A j \in found : i <= j
    IN  IF found = {} THEN <<text>>
        ELSE <<SubSeq(text, 1, at - 1)>>
             \o split(SubSeq(text, at + Len(separator), Len(text)), separator)

\* Number(text) of a decimal numeral
DigitValue(digit) == CHOOSE n \in 0..9 : ToString(n) = digit
RECURSIVE Number(_)
Number(text) ==
    IF text = << >> THEN 0
    ELSE 10 * Number(SubSeq(text, 1, Len(text) - 1)) + DigitValue(text[Len(text)])

\* ------------------------------------------------------------ syntax nodes
\* A SyntaxNode of the tree-sitter python grammar: its type, its text and
\* its children, the anonymous tokens ("class", "(", ",", "=") among them.
\* The text is kept for the nodes whose text the analysers read.

Leaf(type, text) == [text |-> text, type |-> type, children |-> << >>]
Inner(type, text, children) == [text |-> text, type |-> type, children |-> children]
Token(text) == Leaf(text, text)
Identifier(name) == Leaf("identifier", name)
StringLiteral(text) == Leaf("string", text)
Ellipsis == Inner("expression_statement", "", <<Leaf("ellipsis", "...")>>)

\* a comma-separated list of nodes
Separated(nodes) ==
    [i \in 1..(2 * Len(nodes) - 1) |->
        IF i % 2 = 1 THEN nodes[(i + 1) \div 2] ELSE Token(",")]

ArgumentList(arguments) ==
    Inner("argument_list", "", <<Token("(")>> \o Separated(arguments) \o <<Token(")")>>)
Block(statements) == Inner("block", "", statements)
\* class <header>: <body>, the header being the name and the argument list
ClassDefinition(header, body) ==
    Inner("class_definition", "", <<Token("class")>> \o header \o <<Token(":"), Block(body)>>)
FunctionDefinition(name, parameters, body) ==
    Inner("function_definition", "",
          <<Token("def"), Identifier(name),
            Inner("parameters", "", <<Token("(")>> \o Separated(parameters) \o <<Token(")")>>),
            Token(":"), Block(body)>>)
Assignment(name, value) ==
    Inner("expression_statement", "",
          <<Inner("assignment", "", <<Identifier(name), Token("="), value>>)>>)
Subscript(text, value, subscripts) ==
    Inner("subscript", text,
          <<Identifier(value), Token("[")>> \o Separated(subscripts) \o <<Token("]")>>)
Call(text, function, arguments) ==
    Inner("call", text, <<Identifier(function), ArgumentList(arguments)>>)
ListOf(elements) ==
    Inner("list", "", <<Token("[")>> \o Separated(elements) \o <<Token("]")>>)
DottedName(name) == Inner("dotted_name", name, <<Identifier(name)>>)
AliasedImport(text, name, alias) ==
    Inner("aliased_import", text, <<DottedName(name), Token("as"), Identifier(alias)>>)
ImportFrom(module, names) ==
    Inner("import_from_statement", "",
          <<Token("from"), DottedName(module), Token("import")>> \o Separated(names))
Import(names) == Inner("import_statement", "", <<Token("import")>> \o Separated(names))

\* Document texts, each the statements of its module node:
\*    1  an empty file
\*    2  class Foo(Base): ...          Bar = List[int]
\*       Mode = Literal[["a", "b"]]
\*    3  from m import Foo             class Bar(Protocol): def run(self): ...
\*       T = TypeVar("T", int)         super = TypeVar("super")
\*    4  from m import Foo, Base as B
\*    5  from m import Widget as W     import pkg.Shape
\*       from m import helper
\*    6  from typing import List       from m import Foo
\*    7  T = TypeVar("T", int, str)    K = TypeVar(Key, int)
\*    8  def f(): Inner = List[int]    Pairs = Dict[str, int]
\*       n = int("3")                  Mode = Literal["a", "b"]
\*    9  super = List[int]             class super(Base): ...
\*   10  class (Base): ...             class Foo(Base, Mixin): ...
\*       class Bar(Base, Protocol): def run(self): ...
\*       class Baz: ...
SyntaxTrees == <<
    << >>,
    << ClassDefinition(<<Identifier("Foo"), ArgumentList(<<Identifier("Base")>>)>>,
                       <<Ellipsis>>),
       Assignment("Bar", Subscript("List[int]", "List", <<Identifier("int")>>)),
       Assignment("Mode", Subscript("Literal[[\"a\", \"b\"]]", "Literal",
                                    <<ListOf(<<StringLiteral("\"a\""),
                                               StringLiteral("\"b\"")>>)>>)) >>,
    << ImportFrom("m", <<DottedName("Foo")>>),
       ClassDefinition(<<Identifier("Bar"), ArgumentList(<<Identifier("Protocol")>>)>>,
                       <<FunctionDefinition("run", <<Identifier("self")>>, <<Ellipsis>>)>>),
       Assignment("T", Call("TypeVar(\"T\", int)", "TypeVar",
                            <<StringLiteral("\"T\""), Identifier("int")>>)),
       Assignment("super", Call("TypeVar(\"super\")", "TypeVar",
                                <<StringLiteral("\"super\"")>>)) >>,
    << ImportFrom("m", <<DottedName("Foo"), AliasedImport("Base as B", "Base", "B")>>) >>,
    << ImportFrom("m", <<AliasedImport("Widget as W", "Widget", "W")>>),
       Import(<<Inner("dotted_name", "pkg.Shape",
                      <<Identifier("pkg"), Token("."), Identifier("Shape")>>)>>),
       ImportFrom("m", <<DottedName("helper")>>) >>,
    << ImportFrom("typing", <<DottedName("List")>>),
       ImportFrom("m", <<DottedName("Foo")>>) >>,
    << Assignment("T", Call("TypeVar(\"T\", int, str)", "TypeVar",
                            <<StringLiteral("\"T\""), Identifier("int"), Identifier("str")>>)),
       Assignment("K", Call("TypeVar(Key, int)", "TypeVar",
                            <<Identifier("Key"), Identifier("int")>>)) >>,
    << FunctionDefinition("f", << >>,
                          <<Assignment("Inner", Subscript("List[int]", "List",
                                                          <<Identifier("int")>>))>>),
       Assignment("Pairs", Subscript("Dict[str, int]", "Dict",
                                     <<Identifier("str"), Identifier("int")>>)),
       Assignment("n", Call("int(\"3\")", "int", <<StringLiteral("\"3\"")>>)),
       Assignment("Mode", Subscript("Literal[\"a\", \"b\"]", "Literal",
                                    <<StringLiteral("\"a\""), StringLiteral("\"b\"")>>)) >>,
    << Assignment("super", Subscript("List[int]", "List", <<Identifier("int")>>)),
       ClassDefinition(<<Identifier("super"), ArgumentList(<<Identifier("Base")>>)>>,
                       <<Ellipsis>>) >>,
    << ClassDefinition(<<ArgumentList(<<Identifier("Base")>>)>>, <<Ellipsis>>),
       ClassDefinition(<<Identifier("Foo"),
                         ArgumentList(<<Identifier("Base"), Identifier("Mixin")>>)>>,
                       <<Ellipsis>>),
       ClassDefinition(<<Identifier("Bar"),
                         ArgumentList(<<Identifier("Base"), Identifier("Protocol")>>)>>,
                       <<FunctionDefinition("run", <<Identifier("self")>>, <<Ellipsis>>)>>),
       ClassDefinition(<<Identifier("Baz")>>, <<Ellipsis>>) >> >>

\* the texts an open document holds, and the texts the analysers are run on
DocumentTexts == 1..3
AnalysedTexts == 1..Len(SyntaxTrees)

VARIABLES
    localClasses, importedClasses, typeAliases, typeVars, protocols, literalTypes,
    currentVersion, cacheCreated, cache,
    appendBrackets, nextId, result,
    activated, docText, parsedText, treeSitter, scan

registry == <<localClasses, importedClasses, typeAliases, typeVars, protocols, literalTypes>>
vars == <<localClasses, importedClasses, typeAliases, typeVars, protocols, literalTypes,
          currentVersion, cacheCreated, cache, appendBrackets, nextId, result,
          activated, docText, parsedText, treeSitter, scan>>

EmptyMap == << >>

\* Map.prototype.set
MapSet(map, key, value) ==
    [k \in (DOMAIN map) \cup {key} |-> IF k = key THEN value ELSE map[k]]

\* Map.prototype.delete applied to every key of a set
MapDeleteAll(map, keys) ==
    [k \in (DOMAIN map) \ keys |-> map[k]]

Entries(reg) ==
    Cardinality(DOMAIN reg[1]) + Cardinality(DOMAIN reg[2]) + Cardinality(DOMAIN reg[3])
    + Cardinality(DOMAIN reg[4]) + Cardinality(DOMAIN reg[5]) + Cardinality(DOMAIN reg[6])

\* the outcome record of a call
Outcome(op, arg, threw, value) ==
    [value |-> value, op |-> op, arg |-> arg, threw |-> threw]

NoValue == << >>

\* ------------------------------------------------------------ CustomTypes

\* TypeCache's listener on CustomTypes.onTypesChanged, run by
\* notifyTypesChanged(): one fire() reaches the single subscriber, if any.
notifyTypesChanged(version, listening) ==
    IF listening THEN version + 1 ELSE version

\* removeFromMap(map, filePath)
removeFromMap(map, filePath) ==
    MapDeleteAll(map, {k \in DOMAIN map : map[k].filePath = filePath})

\* the six maps after the Map.set of each add* method
setLocalClass(reg, className, filePath, baseClasses) ==
    [reg EXCEPT ![1] = MapSet(@, className,
                              [filePath |-> filePath, baseClasses |-> baseClasses])]

setImportedClass(reg, className, filePath, alias) ==
    [reg EXCEPT ![2] = MapSet(@, IF alias = Undefined \/ alias = "" THEN className ELSE alias,
                              [originalName |-> className, filePath |-> filePath])]

setTypeAlias(reg, name, originalType, filePath) ==
    [reg EXCEPT ![3] = MapSet(@, name, [originalType |-> originalType, filePath |-> filePath])]

setTypeVar(reg, name, constraints, filePath) ==
    [reg EXCEPT ![4] = MapSet(@, name, [constraints |-> constraints, filePath |-> filePath])]

setProtocol(reg, name, methods, filePath) ==
    [reg EXCEPT ![5] = MapSet(@, name, [methods |-> methods, filePath |-> filePath])]

setLiteralType(reg, name, values, filePath) ==
    [reg EXCEPT ![6] = MapSet(@, name, [values |-> values, filePath |-> filePath])]

\* addLocalClass with the argument check placed after the insertion
addLocalClassCheckAfterSet(className, filePath, baseClasses) ==
    /\ localClasses' = setLocalClass(registry, className, filePath, baseClasses)[1]
    /\ IF className = "" \/ filePath = ""
       THEN /\ result' = Outcome("addLocalClass", <<className, filePath>>, TRUE, NoValue)
            /\ UNCHANGED currentVersion
       ELSE /\ result' = Outcome("addLocalClass", <<className, filePath>>, FALSE, NoValue)
            /\ currentVersion' = notifyTypesChanged(currentVersion, cacheCreated)
    /\ UNCHANGED <<importedClasses, typeAliases, typeVars, protocols, literalTypes>>

addLocalClass(className, filePath, baseClasses) ==
    IF className = "" \/ filePath = ""
    THEN /\ result' = Outcome("addLocalClass", <<className, filePath>>, TRUE, NoValue)
         /\ UNCHANGED <<registry, currentVersion>>
    ELSE /\ localClasses' = setLocalClass(registry, className, filePath, baseClasses)[1]
         /\ currentVersion' = notifyTypesChanged(currentVersion, cacheCreated)
         /\ result' = Outcome("addLocalClass", <<className, filePath>>, FALSE, NoValue)
         /\ UNCHANGED <<importedClasses, typeAliases, typeVars, protocols, literalTypes>>

addImportedClass(className, filePath, alias) ==
    /\ importedClasses' = setImportedClass(registry, className, filePath, alias)[2]
    /\ currentVersion' = notifyTypesChanged(currentVersion, cacheCreated)
    /\ result' = Outcome("addImportedClass", "", FALSE, NoValue)
    /\ UNCHANGED <<localClasses, typeAliases, typeVars, protocols, literalTypes>>

removeFileClasses(filePath) ==
    /\ localClasses' = removeFromMap(localClasses, filePath)
    /\ importedClasses' = removeFromMap(importedClasses, filePath)
    /\ currentVersion' = notifyTypesChanged(currentVersion, cacheCreated)
    /\ result' = Outcome("removeFileClasses", filePath, FALSE, NoValue)
    /\ UNCHANGED <<typeAliases, typeVars, protocols, literalTypes>>

\* addTypeAlias that does not announce the change
addTypeAliasWithoutNotify(name, originalType, filePath) ==
    /\ typeAliases' = setTypeAlias(registry, name, originalType, filePath)[3]
    /\ UNCHANGED currentVersion
    /\ result' = Outcome("addTypeAlias", <<name, filePath>>, FALSE, NoValue)
    /\ UNCHANGED <<localClasses, importedClasses, typeVars, protocols, literalTypes>>

addTypeAlias(name, originalType, filePath) ==
    /\ typeAliases' = setTypeAlias(registry, name, originalType, filePath)[3]
    /\ currentVersion' = notifyTypesChanged(currentVersion, cacheCreated)
    /\ result' = Outcome("addTypeAlias", <<name, filePath>>, FALSE, NoValue)
    /\ UNCHANGED <<localClasses, importedClasses, typeVars, protocols, literalTypes>>

addTypeVar(name, constraints, filePath) ==
    /\ typeVars' = setTypeVar(registry, name, constraints, filePath)[4]
    /\ currentVersion' = notifyTypesChanged(currentVersion, cacheCreated)
    /\ result' = Outcome("addTypeVar", "", FALSE, NoValue)
    /\ UNCHANGED <<localClasses, importedClasses, typeAliases, protocols, literalTypes>>

\* removeAllFileData that forgets the protocol and literal-type maps
removeAllFileDataMapsFourOnly(reg, filePath) ==
    << removeFromMap(reg[1], filePath),
       removeFromMap(reg[2], filePath),
       MapDeleteAll(reg[3], {k \in DOMAIN reg[3] : reg[3][k].filePath = filePath}),
       MapDeleteAll(reg[4], {k \in DOMAIN reg[4] : reg[4][k].filePath = filePath}),
       reg[5],
       reg[6] >>

\* the six maps after removeAllFileData(filePath)
removeAllFileDataMaps(reg, filePath) ==
    << removeFromMap(reg[1], filePath),
       removeFromMap(reg[2], filePath),
       MapDeleteAll(reg[3], {k \in DOMAIN reg[3] : reg[3][k].filePath = filePath}),
       MapDeleteAll(reg[4], {k \in DOMAIN reg[4] : reg[4][k].filePath = filePath}),
       MapDeleteAll(reg[5], {k \in DOMAIN reg[5] : reg[5][k].filePath = filePath}),
       MapDeleteAll(reg[6], {k \in DOMAIN reg[6] : reg[6][k].filePath = filePath}) >>

\* removeAllFileData that notifies once for the class maps and once more at the end
removeAllFileDataNotifyingTwice(filePath) ==
    /\ localClasses' = removeAllFileDataMaps(registry, filePath)[1]
    /\ importedClasses' = removeAllFileDataMaps(registry, filePath)[2]
    /\ typeAliases' = removeAllFileDataMaps(registry, filePath)[3]
    /\ typeVars' = removeAllFileDataMaps(registry, filePath)[4]
    /\ protocols' = removeAllFileDataMaps(registry, filePath)[5]
    /\ literalTypes' = removeAllFileDataMaps(registry, filePath)[6]
    /\ currentVersion' = notifyTypesChanged(notifyTypesChanged(currentVersion, cacheCreated),
                                            cacheCreated)
    /\ result' = Outcome("removeAllFileData", filePath, FALSE,
                          Entries(registry) - Entries(removeAllFileDataMaps(registry, filePath)))

removeAllFileData(filePath) ==
    /\ localClasses' = removeAllFileDataMaps(registry, filePath)[1]
    /\ importedClasses' = removeAllFileDataMaps(registry, filePath)[2]
    /\ typeAliases' = removeAllFileDataMaps(registry, filePath)[3]
    /\ typeVars' = removeAllFileDataMaps(registry, filePath)[4]
    /\ protocols' = removeAllFileDataMaps(registry, filePath)[5]
    /\ literalTypes' = removeAllFileDataMaps(registry, filePath)[6]
    /\ currentVersion' = notifyTypesChanged(currentVersion, cacheCreated)
    /\ result' = Outcome("removeAllFileData", filePath, FALSE,
                          Entries(registry) - Entries(removeAllFileDataMaps(registry, filePath)))

addProtocol(name, methods, filePath) ==
    /\ protocols' = setProtocol(registry, name, methods, filePath)[5]
    /\ currentVersion' = notifyTypesChanged(currentVersion, cacheCreated)
    /\ result' = Outcome("addProtocol", "", FALSE, NoValue)
    /\ UNCHANGED <<localClasses, importedClasses, typeAliases, typeVars, literalTypes>>

addLiteralType(name, values, filePath) ==
    /\ literalTypes' = setLiteralType(registry, name, values, filePath)[6]
    /\ currentVersion' = notifyTypesChanged(currentVersion, cacheCreated)
    /\ result' = Outcome("addLiteralType", "", FALSE, NoValue)
    /\ UNCHANGED <<localClasses, importedClasses, typeAliases, typeVars, protocols>>

\* the isRefinable expression getFileTypes uses for an entry of a category
isRefinable(category, info) ==
    CASE category = "localClass" -> Len(info.baseClasses) > 0
      [] category = "typeVar" -> Len(info.constraints) > 0
      [] category = "importedClass" -> TRUE
      [] OTHER -> FALSE

\* one {name, isRefinable} record per entry of `map` defined in filePath
FileTypesOf(map, filePath, category) ==
    LET keys == {k \in DOMAIN map : map[k].filePath = filePath}
    IN  SetToBag({[name |-> k, isRefinable |-> isRefinable(category, map[k])] : k \in keys})

\* getFileTypes(filePath): the returned array, as a bag of records
getFileTypes(reg, filePath) ==
    FileTypesOf(reg[1], filePath, "localClass")
    (+) FileTypesOf(reg[3], filePath, "typeAlias")
    (+) FileTypesOf(reg[4], filePath, "typeVar")
    (+) FileTypesOf(reg[5], filePath, "protocol")
    (+) FileTypesOf(reg[6], filePath, "literalType")

callGetFileTypes(filePath) ==
    /\ result' = Outcome("getFileTypes", filePath, FALSE, getFileTypes(registry, filePath))
    /\ UNCHANGED <<registry, currentVersion>>

\* -------------------------------------------------------------- BaseTypes

BuiltinTypes ==
    << "bool", "bytes", "complex", "dict", "float", "int", "list", "object", "set", "str",
       "tuple" >>

TypingTypes == <<
    "Dict", "List", "Set", "Tuple", "Iterable", "Iterator", "AsyncIterator",
    "AsyncIterable", "Generator", "AsyncGenerator", "Optional", "Union", "Annotated",
    "Callable", "Mapping", "MutableMapping", "Sequence", "MutableSequence",
    "AbstractSet", "MutableSet", "Container", "Collection", "ItemsView", "KeysView",
    "ValuesView", "Awaitable", "Coroutine", "IO", "Any", "Never", "NoReturn",
    "ClassVar", "Final", "Self", "TypeVar", "TypeVarTuple", "ParamSpec", "TypeAlias",
    "TypeGuard", "Generic", "Protocol", "ChainMap", "Counter", "Deque", "DefaultDict",
    "OrderedDict", "FrozenSet", "SupportsAbs", "SupportsBytes", "SupportsComplex",
    "SupportsFloat", "SupportsIndex", "SupportsInt", "SupportsRound", "Sized",
    "Hashable", "Reversible", "ByteString", "ContextManager", "AsyncContextManager",
    "BinaryIO", "TextIO", "Match", "Pattern", "AnyStr", "LiteralString", "Literal",
    "Required", "NotRequired", "Type", "Concatenate", "MappingView" >>

Refinable == "Refinable"
NonRefinable == "NonRefinable"

builtInTypeCategories(typeName) ==
    IF typeName \in {"dict", "list", "set", "tuple"} THEN Refinable ELSE NonRefinable

typingTypeCategories(typeName) ==
    IF typeName \in {
    "Dict", "List", "Set", "Tuple", "Iterable", "Iterator", "AsyncIterator",
    "AsyncIterable", "Generator", "AsyncGenerator", "Optional", "Union", "Annotated",
    "Callable", "Mapping", "MutableMapping", "Sequence", "MutableSequence",
    "AbstractSet", "MutableSet", "Container", "Collection", "ItemsView", "KeysView",
    "ValuesView", "Awaitable", "Coroutine", "IO" }
    THEN Refinable ELSE NonRefinable

Values(seq) == {seq[i] : i \in 1..Len(seq)}

\* -------------------------------------------------------------- TypeCache
\* A string built by concatenation is the sequence of its parts: the hint
\* `list[]` is <<"list", "[]">>, the sort text `90list[]` is
\* <<90, "list", "[]">>, the cache key `${uri}:${key}` is <<uri>> \o key.

generateCacheKey(key, document) == <<document.uri>> \o key

\* getOrCreate that returns any entry found, whatever its version stamp
getOrCreateIgnoringVersion(c, nid, version, key, document, created) ==
    LET cacheKey == generateCacheKey(key, document)
    IN  IF cacheKey \in DOMAIN c
        THEN [cache |-> c, nextId |-> nid, items |-> c[cacheKey].items,
              id |-> c[cacheKey].id, creatorCalls |-> 0, replaced |-> 0]
        ELSE [cache |-> MapSet(c, cacheKey, [document |-> document.uri, items |-> created,
                                             version |-> version, id |-> nid]),
              nextId |-> nid + 1, items |-> created, id |-> nid, creatorCalls |-> 1,
              replaced |-> 0]

\* getOrCreate(key, document, creator) on cache map c, with `created` the
\* list creator() returns and nid the identity of the next list object.
\* Yields the cache afterwards, the returned list and its identity, how
\* often creator ran, and the identity of the list this call replaced.
getOrCreate(c, nid, version, key, document, created) ==
    LET cacheKey == generateCacheKey(key, document)
    IN  IF cacheKey \in DOMAIN c /\ c[cacheKey].version = version
        THEN [cache |-> c, nextId |-> nid, items |-> c[cacheKey].items,
              id |-> c[cacheKey].id, creatorCalls |-> 0, replaced |-> 0]
        ELSE [cache |-> MapSet(c, cacheKey, [document |-> document.uri, items |-> created,
                                             version |-> version, id |-> nid]),
              nextId |-> nid + 1, items |-> created, id |-> nid, creatorCalls |-> 1,
              replaced |-> IF cacheKey \in DOMAIN c THEN c[cacheKey].id ELSE 0]

\* clearDocumentCache that drops the entries of every document
clearDocumentCacheOfEveryDocument(c, document) ==
    MapDeleteAll(c, DOMAIN c)

clearDocumentCache(c, document) ==
    MapDeleteAll(c, {k \in DOMAIN c : c[k].document = document.uri})

\* -------------------------------------------------------- BaseTypeProcess

\* BaseCompletionProvider.itemSortPrefix, handed to BaseTypeProcess
itemSortPrefix == 90
\* a constructor that ranks the custom class after the catalog classes
customSortPrefixAfterBase == itemSortPrefix + 10
\* the prefix handed to CustomTypeProcess: itemSortPrefix - 10
customSortPrefix == itemSortPrefix - 10

endsWithBrackets(hint) == Len(hint) > 0 /\ hint[Len(hint)] = "[]"

\* typeName.replace(/\[?\]?$/, ''): drops a final `[]`, `[` or `]`
removeBrackets(hint) ==
    IF Len(hint) = 0 THEN hint
    ELSE IF hint[Len(hint)] \in {"[]", "["} THEN SubSeq(hint, 1, Len(hint) - 1)
    ELSE IF hint[Len(hint)] = "]"
         THEN IF Len(hint) > 1 /\ hint[Len(hint) - 1] = "["
              THEN SubSeq(hint, 1, Len(hint) - 2)
              ELSE SubSeq(hint, 1, Len(hint) - 1)
    ELSE hint

\* cleanName.replace('typing.', ''): drops the first `typing.`
removeTypingPrefix(hint) ==
    IF \E i \in 1..Len(hint) : hint[i] = "typing."
    THEN LET first == CHOOSE i \in 1..Len(hint) :
                          hint[i] = "typing." /\ \A j \in 1..(i - 1) : hint[j] # "typing."
         IN  SubSeq(hint, 1, first - 1) \o SubSeq(hint, first + 1, Len(hint))
    ELSE hint

\* cleanTypeName(hint) with its default options
cleanTypeName(hint) == removeTypingPrefix(removeBrackets(hint))

\* getTypeSource that looks the name up with its `typing.` prefix kept
getTypeSourceKeepingPrefix(hint) ==
    IF removeBrackets(hint) \in {<<t>> : t \in Values(TypingTypes)}
    THEN "[typing]" ELSE "[builtin]"

getTypeSource(hint) ==
    IF cleanTypeName(hint) \in {<<t>> : t \in Values(TypingTypes)}
    THEN "[typing]" ELSE "[builtin]"

labelFor(hint) == <<" ">> \o hint

createBaseCompletionItem(hint, sortTextPrefix, isPreselected) ==
    [label |-> labelFor(hint),
     sortText |-> <<sortTextPrefix>> \o hint,
     detail |-> getTypeSource(hint),
     preselect |-> isPreselected,
     insertText |-> << >>]

newCompletionItem(hint, sortTextPrefix) ==
    IF endsWithBrackets(hint)
    THEN [createBaseCompletionItem(hint, sortTextPrefix, FALSE)
            EXCEPT !.insertText = SubSeq(hint, 1, Len(hint) - 1) \o <<"[$1]">>]
    ELSE createBaseCompletionItem(hint, sortTextPrefix, FALSE)

selectedCompletionItem(typeHint, sortTextPrefix) ==
    createBaseCompletionItem(typeHint, sortTextPrefix, TRUE)

\* the hint getBuiltinHints / getTypingHints build for a catalog type
hintFor(typeName, category, brackets) ==
    IF brackets /\ category = Refinable THEN <<typeName, "[]">> ELSE <<typeName>>

\* creator of getBuiltinHints
builtinItems(brackets) ==
    [i \in 1..Len(BuiltinTypes) |->
        newCompletionItem(hintFor(BuiltinTypes[i], builtInTypeCategories(BuiltinTypes[i]),
                                  brackets),
                          itemSortPrefix)]

\* creator of getTypingHints
typingItems(brackets) ==
    [i \in 1..Len(TypingTypes) |->
        newCompletionItem(hintFor(TypingTypes[i], typingTypeCategories(TypingTypes[i]),
                                  brackets),
                          itemSortPrefix + 1)]

\* ------------------------------------------------------ CustomTypeProcess

TYPE_SOURCE == "[custom]"

\* createCustomCompletionItem that does not read settings.appendBrackets
createCustomCompletionItemIgnoringSetting(hint, sortTextPrefix, detail, refinable, brackets) ==
    [label |-> <<hint>>,
     sortText |-> <<sortTextPrefix, hint>>,
     detail |-> detail,
     insertText |-> IF refinable THEN <<hint, "[$1]">> ELSE << >>]

createCustomCompletionItem(hint, sortTextPrefix, detail, refinable, brackets) ==
    [label |-> <<hint>>,
     sortText |-> <<sortTextPrefix, hint>>,
     detail |-> detail,
     insertText |-> IF refinable /\ brackets THEN <<hint, "[$1]">> ELSE << >>]

\* the items one loop of getAllCustomTypeHints pushes for a category map
customItemsOf(map, category, offset, filePath, brackets) ==
    { createCustomCompletionItem(
          k, customSortPrefix + offset,
          CASE category = "localClass" -> <<TYPE_SOURCE, "Local", map[k].baseClasses>>
            [] category = "importedClass" -> <<TYPE_SOURCE, "Imported from", map[k].originalName>>
            [] category = "typeAlias" -> <<TYPE_SOURCE, "Alias for", map[k].originalType>>
            [] category = "typeVar" -> <<TYPE_SOURCE, "TypeVar", map[k].constraints>>
            [] category = "protocol" ->
                 <<TYPE_SOURCE, "Protocol with", Cardinality(DOMAIN map[k].methods), "methods">>
            [] OTHER -> <<TYPE_SOURCE, "Literal", map[k].values>>,
          CASE category = "localClass" -> Len(map[k].baseClasses) > 0
            [] category = "importedClass" -> TRUE
            [] category = "typeVar" -> Len(map[k].constraints) > 0
            [] OTHER -> FALSE,
          brackets)
      : k \in {n \in DOMAIN map : map[n].filePath = filePath} }

\* the items of the six per-category getters together, every entry of the
\* registry whatever its file
customItemsWithoutFileFilter(reg, filePath, brackets) ==
    UNION {customItemsOf(reg[1], "localClass", 0, f, brackets)
           \cup customItemsOf(reg[2], "importedClass", 1, f, brackets)
           \cup customItemsOf(reg[3], "typeAlias", 2, f, brackets)
           \cup customItemsOf(reg[4], "typeVar", 3, f, brackets)
           \cup customItemsOf(reg[5], "protocol", 4, f, brackets)
           \cup customItemsOf(reg[6], "literalType", 5, f, brackets) : f \in Files}

\* creator of getAllCustomTypeHints(document)
customItems(reg, filePath, brackets) ==
    customItemsOf(reg[1], "localClass", 0, filePath, brackets)
    \cup customItemsOf(reg[2], "importedClass", 1, filePath, brackets)
    \cup customItemsOf(reg[3], "typeAlias", 2, filePath, brackets)
    \cup customItemsOf(reg[4], "typeVar", 3, filePath, brackets)
    \cup customItemsOf(reg[5], "protocol", 4, filePath, brackets)
    \cup customItemsOf(reg[6], "literalType", 5, filePath, brackets)

\* A CompletionItem[] is held in the state by what determines it: a catalog
\* list by the appendBrackets value its creator read, a custom list by its
\* items.  Items(list) is the list.
BuiltinList(brackets) == [brackets |-> brackets, of |-> "builtin", custom |-> {}]
TypingList(brackets) == [brackets |-> brackets, of |-> "typing", custom |-> {}]
CustomList(items) == [brackets |-> FALSE, of |-> "custom", custom |-> items]

Items(list) ==
    CASE list.of = "builtin" -> builtinItems(list.brackets)
      [] list.of = "typing" -> typingItems(list.brackets)
      [] OTHER -> list.custom

allCustomTypesKey(document) == <<"allCustomTypes", document.fsPath>>

\* what a caller of a cached getter observes: the identity of the list it
\* got (the list itself is the one stored under the key), how often the
\* creator ran, and the identity of the list that was replaced
Served(r) ==
    [id |-> r.id, creatorCalls |-> r.creatorCalls, replaced |-> r.replaced]

CacheFrame ==
    UNCHANGED <<registry, currentVersion, cacheCreated, appendBrackets, activated, docText,
                parsedText, treeSitter, scan>>

\* one cached getter call: typeCache.getOrCreate(key, document, creator)
cachedGetter(op, key, document, created) ==
    LET r == getOrCreate(cache, nextId, currentVersion, key, document, created)
    IN  /\ r.nextId <= MaxLists + 1
        /\ cache' = r.cache
        /\ nextId' = r.nextId
        /\ result' = Outcome(op, generateCacheKey(key, document), FALSE, Served(r))
        /\ CacheFrame

getAllCustomTypeHints(document) ==
    cachedGetter("getAllCustomTypeHints", allCustomTypesKey(document), document,
                 CustomList(customItems(registry, document.fsPath, appendBrackets)))

getBuiltinHints(document) ==
    cachedGetter("getBuiltinHints", <<"builtin">>, document, BuiltinList(appendBrackets))

clearCache(document) ==
    /\ cache' = clearDocumentCache(cache, document)
    /\ result' = Outcome("clearCache", document.uri, FALSE, NoValue)
    /\ UNCHANGED nextId
    /\ CacheFrame

\* ------------------------------------------------------- TypeHintSettings

\* the workspace.onDidChangeConfiguration listener of TypeHintSettings:
\* initialize() re-reads appendBrackets; settingsUpdated.fire() has no
\* subscriber
onDidChangeConfiguration(configured) ==
    /\ appendBrackets' = IF configured = Undefined THEN appendBrackets
                         ELSE (configured = "true")
    /\ result' = Outcome("onDidChangeConfiguration", configured, FALSE, NoValue)
    /\ UNCHANGED <<registry, currentVersion, cacheCreated, cache, nextId, activated, docText,
                   parsedText, treeSitter, scan>>

\* -------------------------------------------------------------- ASTService
\* treeSitter tells whether require('tree-sitter') and setLanguage
\* succeeded when the ASTService instances were constructed.  A syntax tree
\* is its root node.

\* parser.parse(sourceCode) of the tree-sitter parser
treeSitterParse(text) ==
    [rootNode |-> Inner("module", "", SyntaxTrees[text])]

\* parser.parse of the fallback object installed when initialisation failed
fallbackParse ==
    [rootNode |-> Inner("", "", << >>)]

\* parseCode that has no fallback parser
parseCodeWithoutFallback(ready, text) == treeSitterParse(text)

\* parseCode(sourceCode) with the parser the constructor installed
parseCode(ready, text) ==
    IF ready THEN treeSitterParse(text) ELSE fallbackParse

\* traverseTree(node, callback): the nodes in the order callback sees them
RECURSIVE traverseTree(_)
RECURSIVE traverseAll(_)
traverseTree(node) == <<node>> \o traverseAll(node.children)

traverseAll(nodes) ==
    IF nodes = << >> THEN << >> ELSE traverseTree(Head(nodes)) \o traverseAll(Tail(nodes))

\* findNodes(predicate, parent) for the predicate node.type === type
findNodesUnder(parent, type) ==
    SelectSeq(traverseTree(parent), LAMBDA n : n.type = type)

\* findNodes(predicate) for the predicate node.type === type
findNodes(tree, type) == findNodesUnder(tree.rootNode, type)

findAllClassDefinitions(tree) == findNodes(tree, "class_definition")

findAllImports(tree) ==
    SelectSeq(traverseTree(tree.rootNode),
              LAMBDA n : n.type \in {"import_statement", "import_from_statement"})

\* node.children.find(child => child.type is one of types); NoNode is the
\* undefined that find returns when no child matches
NoNode == [text |-> Undefined, type |-> Undefined, children |-> << >>]
childOfType(node, types) ==
    LET found == SelectSeq(node.children, LAMBDA child : child.type \in types)
    IN  IF found = << >> THEN NoNode ELSE found[1]

TextsOf(nodes) == [i \in 1..Len(nodes) |-> nodes[i].text]
identifiersOf(nodes) == TextsOf(SelectSeq(nodes, LAMBDA child : child.type = "identifier"))

getBaseClasses(node) ==
    LET argumentList == childOfType(node, {"argument_list"})
    IN  IF argumentList = NoNode THEN << >> ELSE identifiersOf(argumentList.children)

\* hasBaseClass that looks at the first argument only
hasBaseClassFirstArgument(node, baseClassName) ==
    LET bases == childOfType(node, {"argument_list"})
    IN  /\ bases # NoNode
        /\ Len(bases.children) >= 2
        /\ bases.children[2].type = "identifier" /\ bases.children[2].text = baseClassName

hasBaseClass(node, baseClassName) ==
    LET bases == childOfType(node, {"argument_list"})
    IN  /\ bases # NoNode
        /\ \E i \in 1..Len(bases.children) :
              bases.children[i].type = "identifier" /\ bases.children[i].text = baseClassName

getMethodParams(node) ==
    LET paramList == childOfType(node, {"parameters"})
    IN  IF paramList = NoNode THEN << >> ELSE identifiersOf(paramList.children)

getReturnType(node) ==
    LET returnType == childOfType(node, {"type_annotation"})
    IN  IF returnType = NoNode \/ returnType.children = << >> THEN Undefined
        ELSE returnType.children[1].text

\* the value getLiteralValues pushes for one child of the list, NoValue if none
literalValue(value) ==
    CASE value.type = "string" -> <<value.text>>
      [] value.type = "number" -> <<Number(Chars(value.text))>>
      [] value.type \in {"true", "false"} -> <<value.type = "true">>
      [] OTHER -> << >>

RECURSIVE Flatten(_)
Flatten(lists) ==
    IF lists = << >> THEN << >> ELSE Head(lists) \o Flatten(Tail(lists))

getLiteralValues(node) ==
    LET literalList == childOfType(node, {"list", "tuple"})
    IN  IF literalList = NoNode THEN << >>
        ELSE Flatten([i \in 1..Len(literalList.children) |->
                         literalValue(literalList.children[i])])

\* ------------------------------------------------------------ TypeAnalyzer

\* /^[A-Z]/.test(name)
isClassName(name) ==
    name # Undefined /\ Chars(name) # << >> /\ Chars(name)[1] \in UpperCase

\* getBaseType()[typeName]?.category === TypeCategory.Refinable
isRefinableBaseType(typeName) ==
    \/ typeName \in Values(BuiltinTypes) /\ builtInTypeCategories(typeName) = Refinable
    \/ typeName \in Values(TypingTypes) /\ typingTypeCategories(typeName) = Refinable

\* argList.children.slice(1), then the identifiers among them
analyzeTypeVarConstraints(node) ==
    LET argList == childOfType(node, {"argument_list"})
    IN  IF argList = NoNode \/ argList.children = << >> THEN << >>
        ELSE identifiersOf(Tail(argList.children))

\* import a.b.C: the last part of every dotted name, if it is a class name
analyzeImportStatement(node) ==
    LET names == SelectSeq(node.children, LAMBDA child : child.type = "dotted_name")
        className(child) == LET parts == split(Chars(child.text), <<".">>)
                            IN  Text(parts[Len(parts)])
    IN  Flatten([i \in 1..Len(names) |->
                    IF isClassName(className(names[i]))
                    THEN <<[alias |-> Undefined, className |-> className(names[i])]>>
                    ELSE << >>])

\* analyzeFromImportStatement without the return for the module typing
analyzeFromImportStatementOfAnyModule(node) ==
    LET moduleNode == childOfType(node, {"dotted_name"})
        moduleAt == CHOOSE i \in 1..Len(node.children) :
                        /\ node.children[i].type = "dotted_name"
                        /\ \A j \in 1..(i - 1) : node.children[j].type # "dotted_name"
        aliasedImport == childOfType(node, {"aliased_import"})
        pieces == split(Chars(aliasedImport.text), <<"a", "s">>)
        sourceName == Text(trim(pieces[1]))
        aliasName == IF Len(pieces) >= 2 THEN Text(trim(pieces[2])) ELSE Undefined
        importedAt == {i \in 1..Len(node.children) :
                          node.children[i].type = "dotted_name" /\ i # moduleAt}
    IN  IF moduleNode = NoNode THEN << >>
        ELSE IF aliasedImport # NoNode
             THEN IF isClassName(sourceName)
                  THEN <<[alias |-> aliasName, className |-> sourceName]>>
                  ELSE << >>
             ELSE Flatten([i \in 1..Len(node.children) |->
                              IF i \in importedAt /\ isClassName(node.children[i].text)
                              THEN <<[alias |-> Undefined,
                                       className |-> node.children[i].text]>>
                              ELSE << >>])

\* from M import ...: nothing for typing; the first aliased import alone if
\* there is one; otherwise every dotted name but the module's
analyzeFromImportStatement(node) ==
    LET moduleNode == childOfType(node, {"dotted_name"})
        moduleAt == CHOOSE i \in 1..Len(node.children) :
                        /\ node.children[i].type = "dotted_name"
                        /\ \A j \in 1..(i - 1) : node.children[j].type # "dotted_name"
        aliasedImport == childOfType(node, {"aliased_import"})
        pieces == split(Chars(aliasedImport.text), <<"a", "s">>)
        sourceName == Text(trim(pieces[1]))
        aliasName == IF Len(pieces) >= 2 THEN Text(trim(pieces[2])) ELSE Undefined
        importedAt == {i \in 1..Len(node.children) :
                          node.children[i].type = "dotted_name" /\ i # moduleAt}
    IN  IF moduleNode.text = "typing" \/ moduleNode = NoNode THEN << >>
        ELSE IF aliasedImport # NoNode
             THEN IF isClassName(sourceName)
                  THEN <<[alias |-> aliasName, className |-> sourceName]>>
                  ELSE << >>
             ELSE Flatten([i \in 1..Len(node.children) |->
                              IF i \in importedAt /\ isClassName(node.children[i].text)
                              THEN <<[alias |-> Undefined,
                                       className |-> node.children[i].text]>>
                              ELSE << >>])

analyzeImports(tree) ==
    LET importNodes == findAllImports(tree)
    IN  Flatten([i \in 1..Len(importNodes) |->
                    IF importNodes[i].type = "import_statement"
                    THEN analyzeImportStatement(importNodes[i])
                    ELSE analyzeFromImportStatement(importNodes[i])])

\* what the loop of analyzeVariableTypes pushes for one assignment, and on
\* which of its three lists
variableType(node) ==
    LET nameNode == childOfType(node, {"identifier"})
        rightSide == childOfType(node, {"call", "subscript"})
        baseTypeNode == childOfType(rightSide, {"identifier"})
        baseTypeName == baseTypeNode.text
        values == getLiteralValues(rightSide)
        none == [kind |-> "", decl |-> << >>]
    IN  IF nameNode = NoNode \/ rightSide = NoNode \/ baseTypeNode = NoNode THEN none
        ELSE IF baseTypeName = "Literal"
             THEN IF Len(values) > 0
                  THEN [kind |-> "Literal", decl |-> [name |-> nameNode.text, values |-> values]]
                  ELSE none
        ELSE IF baseTypeName = "TypeVar"
             THEN [kind |-> "TypeVar",
                   decl |-> [name |-> nameNode.text,
                             constraints |-> analyzeTypeVarConstraints(rightSide)]]
        ELSE IF ~isRefinableBaseType(baseTypeName) THEN none
        ELSE [kind |-> "alias",
              decl |-> [name |-> nameNode.text, originalType |-> rightSide.text]]

\* what the assignments found push on the list of one kind
DeclsOf(nodes, kind) ==
    LET pushed == [i \in 1..Len(nodes) |-> variableType(nodes[i])]
        sel == SelectSeq(pushed, LAMBDA p : p.kind = kind)
    IN  [i \in 1..Len(sel) |-> sel[i].decl]

analyzeVariableTypes(tree) ==
    LET assignments == findNodes(tree, "assignment")
    IN  [typeVars |-> DeclsOf(assignments, "TypeVar"),
         aliases |-> DeclsOf(assignments, "alias"),
         literals |-> DeclsOf(assignments, "Literal")]

\* the methods object analyzeProtocols builds for a class node: a method
\* defined twice keeps its last definition
protocolMethods(node) ==
    LET methodNodes == SelectSeq(findNodesUnder(node, "function_definition"),
                                 LAMBDA m : childOfType(m, {"identifier"}) # NoNode
                                            /\ childOfType(m, {"identifier"}).text # "")
        methodName(m) == childOfType(m, {"identifier"}).text
        lastOf(name) == CHOOSE i \in 1..Len(methodNodes) :
                            /\ methodName(methodNodes[i]) = name
                            /\ \A j \in (i + 1)..Len(methodNodes) :
                                  methodName(methodNodes[j]) # name
    IN  [name \in {methodName(methodNodes[i]) : i \in 1..Len(methodNodes)} |->
            [params |-> getMethodParams(methodNodes[lastOf(name)]),
             returnType |-> IF getReturnType(methodNodes[lastOf(name)]) \in {Undefined, ""}
                            THEN "Any"
                            ELSE getReturnType(methodNodes[lastOf(name)])]]

analyzeProtocols(tree) ==
    LET protocolNodes == SelectSeq(findNodes(tree, "class_definition"),
                                   LAMBDA n : /\ hasBaseClass(n, "Protocol")
                                              /\ childOfType(n, {"identifier"}) # NoNode)
    IN  [i \in 1..Len(protocolNodes) |->
            [name |-> childOfType(protocolNodes[i], {"identifier"}).text,
             methods |-> protocolMethods(protocolNodes[i])]]

\* what parseFileContent reads from a tree: analyzeImports(),
\* analyzeProtocols(), the class nodes that have a name, and
\* analyzeVariableTypes()
analyseTree(tree) ==
    LET classNodes == SelectSeq(findAllClassDefinitions(tree),
                                LAMBDA n : childOfType(n, {"identifier"}) # NoNode)
        variableTypes == analyzeVariableTypes(tree)
    IN  [classes |-> [i \in 1..Len(classNodes) |->
                         [name |-> childOfType(classNodes[i], {"identifier"}).text,
                          baseClasses |-> getBaseClasses(classNodes[i]),
                          isProtocol |-> hasBaseClass(classNodes[i], "Protocol")]],
         imports |-> analyzeImports(tree),
         typeVars |-> variableTypes.typeVars,
         protocols |-> analyzeProtocols(tree),
         aliases |-> variableTypes.aliases,
         literals |-> variableTypes.literals]

\* analyseTree, tabulated for the trees of the document texts
Analysed == [text \in AnalysedTexts |-> analyseTree(treeSitterParse(text))]

analyse(tree) ==
    IF \E text \in AnalysedTexts : treeSitterParse(text) = tree
    THEN Analysed[CHOOSE text \in AnalysedTexts : treeSitterParse(text) = tree]
    ELSE analyseTree(tree)

\* -------------------------------------------------------- CustomTypeSearch

EmptyRegistry == <<EmptyMap, EmptyMap, EmptyMap, EmptyMap, EmptyMap, EmptyMap>>

\* the add* calls parseFileContent makes for a text, in order: imports,
\* protocols, the classes that are no protocol, aliases, literals, and the
\* type variables whose name is neither empty nor `super`
parseCalls(content) ==
    [i \in 1..Len(content.imports) |->
        [op |-> "addImportedClass", decl |-> content.imports[i]]]
    \o [i \in 1..Len(content.protocols) |->
        [op |-> "addProtocol", decl |-> content.protocols[i]]]
    \o [i \in 1..Len(SelectSeq(content.classes, LAMBDA c : ~c.isProtocol)) |->
        [op |-> "addLocalClass",
         decl |-> SelectSeq(content.classes, LAMBDA c : ~c.isProtocol)[i]]]
    \o [i \in 1..Len(content.aliases) |-> [op |-> "addTypeAlias", decl |-> content.aliases[i]]]
    \o [i \in 1..Len(content.literals) |->
        [op |-> "addLiteralType", decl |-> content.literals[i]]]
    \o [i \in 1..Len(SelectSeq(content.typeVars,
                               LAMBDA v : v.name # "" /\ v.name # "super")) |->
        [op |-> "addTypeVar",
         decl |-> SelectSeq(content.typeVars,
                            LAMBDA v : v.name # "" /\ v.name # "super")[i]]]

\* the six maps after one add* call of parseFileContent
applyCall(reg, call, filePath) ==
    CASE call.op = "addImportedClass" ->
            setImportedClass(reg, call.decl.className, filePath, call.decl.alias)
      [] call.op = "addProtocol" ->
            setProtocol(reg, call.decl.name, call.decl.methods, filePath)
      [] call.op = "addLocalClass" ->
            setLocalClass(reg, call.decl.name, filePath, call.decl.baseClasses)
      [] call.op = "addTypeAlias" ->
            setTypeAlias(reg, call.decl.name, call.decl.originalType, filePath)
      [] call.op = "addLiteralType" ->
            setLiteralType(reg, call.decl.name, call.decl.values, filePath)
      [] OTHER ->
            setTypeVar(reg, call.decl.name, call.decl.constraints, filePath)

\* the calls run one after the other, each notifying once; an addLocalClass
\* that throws abandons the rest
RECURSIVE applyCalls(_, _, _, _, _)
applyCalls(reg, version, listening, calls, filePath) ==
    IF calls = << >>
    THEN [reg |-> reg, version |-> version]
    ELSE IF Head(calls).op = "addLocalClass" /\ (Head(calls).decl.name = "" \/ filePath = "")
         THEN [reg |-> reg, version |-> version]
         ELSE applyCalls(applyCall(reg, Head(calls), filePath),
                         notifyTypesChanged(version, listening), listening,
                         Tail(calls), filePath)

\* parseFileContent(content, filePath)
parseFileContent(reg, version, listening, content, filePath) ==
    applyCalls(reg, version, listening, parseCalls(content), filePath)

\* parseDocument(document), the text of the document being texts[fsPath]
parseDocument(reg, version, listening, document, texts) ==
    IF document.languageId # "python"
    THEN [reg |-> reg, version |-> version]
    ELSE parseFileContent(reg, version, listening,
                          analyse(parseCode(treeSitter, texts[document.fsPath])),
                          document.fsPath)

\* the file whose cached syntax tree parseFileContent replaced
treeCached(parsed, document, texts) ==
    IF document.languageId # "python"
    THEN parsed
    ELSE [parsed EXCEPT ![document.fsPath] = texts[document.fsPath]]

SetRegistry(reg) ==
    /\ localClasses' = reg[1]
    /\ importedClasses' = reg[2]
    /\ typeAliases' = reg[3]
    /\ typeVars' = reg[4]
    /\ protocols' = reg[5]
    /\ literalTypes' = reg[6]

\* the onDidChangeTextDocument listener with a removeAllFileData that
\* notifies only when it removed an entry
watchCurrentDocumentSilentWhenNothingRemoved(document, newText) ==
    IF document.languageId = "python"
    THEN LET texts == [docText EXCEPT ![document.fsPath] = newText]
             removed == removeAllFileDataMaps(registry, document.fsPath)
             r == parseDocument(removed,
                                IF removed = registry THEN currentVersion
                                ELSE notifyTypesChanged(currentVersion, cacheCreated),
                                cacheCreated, document, texts)
         IN  /\ r.version <= MaxExtVersion
             /\ docText' = texts
             /\ SetRegistry(r.reg)
             /\ currentVersion' = r.version
             /\ parsedText' = treeCached(parsedText, document, texts)
             /\ result' = Outcome("onDidChangeTextDocument", document.uri, FALSE, NoValue)
    ELSE /\ result' = Outcome("onDidChangeTextDocument", document.uri, FALSE, NoValue)
         /\ UNCHANGED <<registry, currentVersion, docText, parsedText>>

\* the onDidChangeTextDocument listener without its removeAllFileData call
watchCurrentDocumentWithoutRemoval(document, newText) ==
    IF document.languageId = "python"
    THEN LET texts == [docText EXCEPT ![document.fsPath] = newText]
             r == parseDocument(registry, currentVersion, cacheCreated, document, texts)
         IN  /\ r.version <= MaxExtVersion
             /\ docText' = texts
             /\ SetRegistry(r.reg)
             /\ currentVersion' = r.version
             /\ parsedText' = treeCached(parsedText, document, texts)
             /\ result' = Outcome("onDidChangeTextDocument", document.uri, FALSE, NoValue)
    ELSE /\ result' = Outcome("onDidChangeTextDocument", document.uri, FALSE, NoValue)
         /\ UNCHANGED <<registry, currentVersion, docText, parsedText>>

\* the onDidChangeTextDocument listener of watchCurrentDocument(): the
\* document now holds newText
watchCurrentDocument(document, newText) ==
    IF document.languageId = "python"
    THEN LET texts == [docText EXCEPT ![document.fsPath] = newText]
             r == parseDocument(removeAllFileDataMaps(registry, document.fsPath),
                                notifyTypesChanged(currentVersion, cacheCreated),
                                cacheCreated, document, texts)
         IN  /\ r.version <= MaxExtVersion
             /\ docText' = texts
             /\ SetRegistry(r.reg)
             /\ currentVersion' = r.version
             /\ parsedText' = treeCached(parsedText, document, texts)
             /\ result' = Outcome("onDidChangeTextDocument", document.uri, FALSE, NoValue)
    ELSE /\ result' = Outcome("onDidChangeTextDocument", document.uri, FALSE, NoValue)
         /\ UNCHANGED <<registry, currentVersion, docText, parsedText>>

\* ------------------------------------------ workspace scan (CustomTypeSearch)
\* The revision of CustomTypeSearch that scans the workspace.  `scan` is the
\* position of the one scanWorkspace() call: the files findFiles returned,
\* the index of the file the loop awaits, and which files were analysed or
\* failed to open.

\* the add* calls of this revision's parseFileContent, in order: every
\* class, imports, aliases, type variables, protocols, literals
scanParseCalls(content) ==
    [i \in 1..Len(content.classes) |-> [op |-> "addLocalClass", decl |-> content.classes[i]]]
    \o [i \in 1..Len(content.imports) |->
        [op |-> "addImportedClass", decl |-> content.imports[i]]]
    \o [i \in 1..Len(content.aliases) |-> [op |-> "addTypeAlias", decl |-> content.aliases[i]]]
    \o [i \in 1..Len(content.typeVars) |-> [op |-> "addTypeVar", decl |-> content.typeVars[i]]]
    \o [i \in 1..Len(content.protocols) |->
        [op |-> "addProtocol", decl |-> content.protocols[i]]]
    \o [i \in 1..Len(content.literals) |->
        [op |-> "addLiteralType", decl |-> content.literals[i]]]

scanParseFileContent(reg, version, listening, content, filePath) ==
    applyCalls(reg, version, listening, scanParseCalls(content), filePath)

\* scanWorkspace() up to its first await: findFiles('**/*.py') resolves with
\* the files in some order
scanWorkspace(pythonFiles) ==
    /\ scan.state = "idle"
    /\ scan' = [state |-> IF pythonFiles = << >> THEN "completed" ELSE "reading",
                files |-> pythonFiles, next |-> 1, analysed |-> {}, failed |-> {}]
    /\ result' = Outcome("findFiles", pythonFiles, FALSE, NoValue)
    /\ UNCHANGED <<registry, currentVersion, parsedText>>

\* one turn of the loop: readFile(file) resolves and the content is parsed
readFileResolves ==
    LET file == scan.files[scan.next]
        r == scanParseFileContent(registry, currentVersion, cacheCreated,
                                  analyse(parseCode(treeSitter, docText[file])), file)
    IN  /\ scan.state = "reading"
        /\ SetRegistry(r.reg)
        /\ currentVersion' = r.version
        /\ parsedText' = [parsedText EXCEPT ![file] = docText[file]]
        /\ scan' = [scan EXCEPT !.analysed = @ \cup {file},
                                !.next = @ + 1,
                                !.state = IF scan.next = Len(scan.files)
                                          THEN "completed" ELSE "reading"]
        /\ result' = Outcome("readFile", file, FALSE, NoValue)

\* openTextDocument rejects: the await throws inside scanWorkspace, which
\* has no handler, so its promise rejects
readFileRejects ==
    LET file == scan.files[scan.next]
    IN  /\ scan.state = "reading"
        /\ scan' = [scan EXCEPT !.failed = @ \cup {file}, !.state = "rejected"]
        /\ result' = Outcome("scanWorkspace", file, TRUE, NoValue)
        /\ UNCHANGED <<registry, currentVersion, parsedText>>

\* ---------------------------------------------------------------- extension

\* activate(context): the active document is parsed, then the listeners are
\* registered and the providers, and with them the TypeCache, are constructed
activate(activeEditor) ==
    LET r == IF activeEditor = NoEditor
             THEN [reg |-> registry, version |-> currentVersion]
             ELSE parseDocument(registry, currentVersion, cacheCreated, activeEditor, docText)
    IN  /\ SetRegistry(r.reg)
        /\ currentVersion' = r.version
        /\ parsedText' = IF activeEditor = NoEditor THEN parsedText
                         ELSE treeCached(parsedText, activeEditor, docText)
        /\ cacheCreated' = TRUE
        /\ activated' = TRUE
        /\ result' = Outcome("activate", activeEditor.uri, FALSE, NoValue)
        /\ UNCHANGED <<cache, appendBrackets, nextId, docText, treeSitter, scan>>

\* the onDidChangeActiveTextEditor listener
onDidChangeActiveTextEditor(editor) ==
    LET r == IF editor = NoEditor
             THEN [reg |-> registry, version |-> currentVersion]
             ELSE parseDocument(registry, currentVersion, cacheCreated, editor, docText)
    IN  /\ r.version <= MaxExtVersion
        /\ SetRegistry(r.reg)
        /\ currentVersion' = r.version
        /\ parsedText' = IF editor = NoEditor THEN parsedText
                         ELSE treeCached(parsedText, editor, docText)
        /\ result' = Outcome("onDidChangeActiveTextEditor", editor.uri, FALSE, NoValue)
        /\ UNCHANGED <<cacheCreated, cache, appendBrackets, nextId, activated, docText,
                       treeSitter, scan>>

\* ------------------------------------------------------ completion providers

\* python.typeHint.enableCustomTypes / enableBaseTypes stay at their defaults
enableCustomTypes == TRUE
\* the setting switched off by the user
enableBaseTypesOff == FALSE
enableBaseTypes == TRUE

paramHintTrigger == ":"
returnHintTrigger == ">"
variableHintTrigger == ":"

\* processTypeHints whose catalog lists are kept across versions
processTypeHintsKeepingCatalogLists(c, nid, version, reg, brackets, document) ==
    LET g1 == getOrCreate(c, nid, version, allCustomTypesKey(document), document,
                          CustomList(customItems(reg, document.fsPath, brackets)))
        c1 == IF enableCustomTypes THEN g1.cache ELSE c
        n1 == IF enableCustomTypes THEN g1.nextId ELSE nid
        g2 == getOrCreateIgnoringVersion(c1, n1, version, <<"builtin">>, document,
                                         BuiltinList(brackets))
        g3 == getOrCreateIgnoringVersion(g2.cache, g2.nextId, version, <<"typing">>, document,
                                         TypingList(brackets))
    IN  [cache |-> IF enableBaseTypes THEN g3.cache ELSE c1,
         nextId |-> IF enableBaseTypes THEN g3.nextId ELSE n1,
         served |-> (IF enableCustomTypes THEN <<g1.id>> ELSE << >>)
                    \o (IF enableBaseTypes THEN <<g2.id, g3.id>> ELSE << >>)]

\* processTypeHints(name, documentText, items, token, doc) on cache map c:
\* the identities of the lists pushed to items, in order
processTypeHints(c, nid, version, reg, brackets, document) ==
    LET g1 == getOrCreate(c, nid, version, allCustomTypesKey(document), document,
                          CustomList(customItems(reg, document.fsPath, brackets)))
        c1 == IF enableCustomTypes THEN g1.cache ELSE c
        n1 == IF enableCustomTypes THEN g1.nextId ELSE nid
        g2 == getOrCreate(c1, n1, version, <<"builtin">>, document, BuiltinList(brackets))
        g3 == getOrCreate(g2.cache, g2.nextId, version, <<"typing">>, document,
                          TypingList(brackets))
    IN  [cache |-> IF enableBaseTypes THEN g3.cache ELSE c1,
         nextId |-> IF enableBaseTypes THEN g3.nextId ELSE n1,
         served |-> (IF enableCustomTypes THEN <<g1.id>> ELSE << >>)
                    \o (IF enableBaseTypes THEN <<g2.id, g3.id>> ELSE << >>)]

\* what a completion request was given
Request(document, cancelled) == [document |-> document.uri, cancelled |-> cancelled]

\* provideCompletionItems returns null
returnsNull(op, request) ==
    /\ result' = Outcome(op, request, FALSE, [served |-> << >>, returned |-> "null"])
    /\ UNCHANGED <<cache, nextId>>
    /\ CacheFrame

\* provideCompletionItems returns a CompletionList of the lists r served
returnsCompletionList(op, request, r) ==
    /\ r.nextId <= MaxRequestLists + 1
    /\ cache' = r.cache
    /\ nextId' = r.nextId
    /\ result' = Outcome(op, request, FALSE,
                         [served |-> r.served, returned |-> "CompletionList"])
    /\ CacheFrame

\* ParamCompletionProvider.provideCompletionItems; shouldProvide and param
\* are what shouldProvideItems and getParam find in the text before the cursor
ParamCompletionProvider(request, document, triggerCharacter, shouldProvide, param, cancelled) ==
    IF triggerCharacter # paramHintTrigger
    THEN returnsNull("ParamCompletionProvider", request)
    ELSE IF shouldProvide /\ param /\ ~cancelled
         THEN returnsCompletionList(
                  "ParamCompletionProvider", request,
                  processTypeHints(cache, nextId, currentVersion, registry, appendBrackets,
                                   document))
         ELSE returnsNull("ParamCompletionProvider", request)

\* ReturnValueCompletionProvider.provideCompletionItems; the token is not read
ReturnValueCompletionProvider(request, document, triggerCharacter, shouldProvide) ==
    IF triggerCharacter # returnHintTrigger
    THEN returnsNull("ReturnValueCompletionProvider", request)
    ELSE IF shouldProvide
         THEN returnsCompletionList(
                  "ReturnValueCompletionProvider", request,
                  processTypeHints(cache, nextId, currentVersion, registry, appendBrackets,
                                   document))
         ELSE returnsCompletionList(
                  "ReturnValueCompletionProvider", request,
                  [cache |-> cache, nextId |-> nextId, served |-> << >>])

\* VariableCompletionProvider.provideCompletionItems
VariableCompletionProvider(request, document, triggerCharacter, shouldProvide, cancelled) ==
    IF triggerCharacter # variableHintTrigger
    THEN returnsNull("VariableCompletionProvider", request)
    ELSE IF shouldProvide /\ ~cancelled
         THEN returnsCompletionList(
                  "VariableCompletionProvider", request,
                  processTypeHints(cache, nextId, currentVersion, registry, appendBrackets,
                                   document))
         ELSE returnsNull("VariableCompletionProvider", request)

\* --------------------------------------------- the text before the cursor
\* A line is the sequence of its characters.  The regular expressions of the
\* providers are the predicates below.

\* /^[a-zA-Z_][a-zA-Z0-9_]*\s*:\s*$/
variablePattern(text) ==
    \E n \in 1..Len(text), colon \in 1..Len(text) :
        /\ n < colon
        /\ text[1] \in IdentifierStart
        /\ AllIn(text, 2, n, IdentifierPart)
        /\ AllIn(text, n + 1, colon - 1, WhiteSpace)
        /\ text[colon] = ":"
        /\ AllIn(text, colon + 1, Len(text), WhiteSpace)

\* /:=\s*$/
walrusPattern(text) ==
    \E colon \in 1..Len(text) :
        /\ HasAt(text, colon, <<":", "=">>)
        /\ AllIn(text, colon + 2, Len(text), WhiteSpace)

\* VariableCompletionProvider.shouldProvideVariableHint
shouldProvideVariableHint(precedingText) ==
    variablePattern(precedingText) /\ ~walrusPattern(precedingText)

\* /\) *->[: ]*$/m on a single line
returnPattern(text) ==
    \E paren \in 1..Len(text), arrow \in 1..Len(text) :
        /\ paren < arrow
        /\ text[paren] = ")"
        /\ AllIn(text, paren + 1, arrow - 1, {" "})
        /\ HasAt(text, arrow, <<"-", ">">>)
        /\ AllIn(text, arrow + 2, Len(text), {":", " "})

\* ReturnValueCompletionProvider.shouldProvideItems(line, pos)
returnShouldProvideItems(text, character) ==
    IF character > 0 /\ substring(text, character - 2, character) = <<"-", ">">>
    THEN returnPattern(text)
    ELSE FALSE

\* the index after `def ` / `async *def ` at the start of text, 0 if absent:
\* /^[ \t]*(def |async *def )/
defHead(text, word) ==
    LET heads == {h \in 1..Len(text) :
                    \E blank \in 0..Len(text), gap \in 0..Len(text) :
                        /\ AllIn(text, 1, blank, WhiteSpace)
                        /\ \/ HasAt(text, blank + 1, word) /\ h = blank + Len(word)
                           \/ /\ HasAt(text, blank + 1, <<"a", "s", "y", "n", "c">>)
                              /\ AllIn(text, blank + 6, blank + 5 + gap, {" "})
                              /\ HasAt(text, blank + 6 + gap, word)
                              /\ h = blank + 5 + gap + Len(word)}
    IN  heads

\* (\):|-> *[^:\s]+:) somewhere after at least one character from index at
signatureClosed(text, at) ==
    \E i \in (at + 1)..Len(text) :
        \/ HasAt(text, i, <<")", ":">>)
        \/ \E name \in 1..Len(text), colon \in 1..Len(text) :
              /\ HasAt(text, i, <<"-", ">">>)
              /\ name >= i + 2 /\ name < colon
              /\ AllIn(text, i + 2, name - 1, {" "})
              /\ AllIn(text, name, colon - 1,
                       {c \in {text[k] : k \in 1..Len(text)} : c \notin WhiteSpace \cup {":"}})
              /\ text[colon] = ":"

\* ParamCompletionProvider.shouldProvideItems for a document of one line:
\* previousLines is the line up to the cursor
paramShouldProvideItems(precedingText, character, text) ==
    IF character > 0 /\ \A i \in 1..Len(precedingText) : precedingText[i] # "#"
    THEN \/ defHead(precedingText, <<"d", "e", "f", " ">>) # {}
         \/ \E h \in defHead(substring(text, 0, character), <<"d", "e", "f">>) :
               ~signatureClosed(substring(text, 0, character), h + 1)
    ELSE FALSE

\* characters that make the regular-expression fallback of getParam give up
ForbiddenInParam ==
    {"!", ":", "]", "[", "?", "/", "\\", "{", "}", ".", "+", "=", ")", "'", "\"", ";", "@",
     "&", "|", "<", ">", "$", "^", "~", " ", "-"}

\* the part of precedingText after its last `,`, `(` or `*`, trimmed; the
\* whole text when it has none
lastSplit(precedingText) ==
    LET cuts == {i \in 1..Len(precedingText) : precedingText[i] \in {",", "(", "*"}}
    IN  IF cuts = {} THEN precedingText
        ELSE trim(SubSeq(precedingText, (CHOOSE i \in cuts : \A j \in cuts : i >= j) + 1,
                         Len(precedingText)))

\* ParamCompletionProvider.getParam finds a parameter name: the syntax tree
\* gives one (astFound), or the fallback does
getParam(precedingText, astFound) ==
    \/ astFound
    \/ /\ lastSplit(precedingText) # << >>
       /\ \A i \in 1..Len(lastSplit(precedingText)) :
             lastSplit(precedingText)[i] \notin ForbiddenInParam

\* what a provider was asked: the document of one line, the cursor, the
\* trigger character and the token
LineRequest(document, text, character, triggerCharacter, cancelled) ==
    [text |-> text, document |-> document.uri, cancelled |-> cancelled,
     triggerCharacter |-> triggerCharacter, character |-> character]

\* provideCompletionItems(doc, pos, token, context) of the three providers
\* on a document whose line at pos is text
provideParamCompletionItems(document, text, character, triggerCharacter, cancelled, astFound) ==
    LET precedingText == trim(substring(text, 0, character - 1))
    IN  ParamCompletionProvider(
            LineRequest(document, text, character, triggerCharacter, cancelled),
            document, triggerCharacter,
            paramShouldProvideItems(precedingText, character, text),
            getParam(precedingText, astFound), cancelled)

provideReturnValueCompletionItems(document, text, character, triggerCharacter, cancelled) ==
    ReturnValueCompletionProvider(
        LineRequest(document, text, character, triggerCharacter, cancelled),
        document, triggerCharacter, returnShouldProvideItems(text, character))

provideVariableCompletionItems(document, text, character, triggerCharacter, cancelled) ==
    LET precedingText == trim(substring(text, 0, character))
    IN  VariableCompletionProvider(
            LineRequest(document, text, character, triggerCharacter, cancelled),
            document, triggerCharacter, shouldProvideVariableHint(precedingText), cancelled)

\* ------------------------------------------------- registry specification

\* scanWorkspace has not been called
NoScan == [state |-> "idle", files |-> << >>, next |-> 1, analysed |-> {}, failed |-> {}]

\* no file parsed yet; every document empty
NoDocs == [f \in Files |-> 0]
EmptyDocs == [f \in Files |-> 1]

Init ==
    /\ localClasses = EmptyMap /\ importedClasses = EmptyMap /\ typeAliases = EmptyMap
    /\ typeVars = EmptyMap /\ protocols = EmptyMap /\ literalTypes = EmptyMap
    /\ currentVersion = 0
    /\ cacheCreated = TRUE
    /\ cache = EmptyMap
    /\ appendBrackets = TRUE
    /\ nextId = 1
    /\ result = Outcome("init", "", FALSE, NoValue)
    /\ activated = TRUE
    /\ docText = EmptyDocs
    /\ parsedText = NoDocs
    /\ treeSitter = TRUE
    /\ scan = NoScan

Rest ==
    <<cacheCreated, cache, appendBrackets, nextId, activated, docText, parsedText, treeSitter,
      scan>>

\* a mutating call is taken while the counters are below their bounds
CanMutate == currentVersion < MaxVersion
Fits == Entries(registry') <= MaxEntries

AddLocalClass ==
    \E n \in Names \cup {""}, f \in Files \cup {""}, b \in BaseClassLists :
        CanMutate /\ addLocalClass(n, f, b) /\ Fits /\ UNCHANGED Rest

AddImportedClass ==
    \E n \in Names, f \in Files, a \in Names \cup {Undefined} :
        CanMutate /\ addImportedClass(n, f, a) /\ Fits /\ UNCHANGED Rest

AddTypeAlias ==
    \E n \in Names, f \in Files, t \in OriginalTypes :
        CanMutate /\ addTypeAlias(n, t, f) /\ Fits /\ UNCHANGED Rest

AddTypeVar ==
    \E n \in Names, f \in Files, c \in ConstraintLists :
        CanMutate /\ addTypeVar(n, c, f) /\ Fits /\ UNCHANGED Rest

AddProtocol ==
    \E n \in Names, f \in Files, m \in MethodTables :
        CanMutate /\ addProtocol(n, m, f) /\ Fits /\ UNCHANGED Rest

AddLiteralType ==
    \E n \in Names, f \in Files, v \in LiteralValueLists :
        CanMutate /\ addLiteralType(n, v, f) /\ Fits /\ UNCHANGED Rest

RemoveFileClasses ==
    \E f \in Files : CanMutate /\ removeFileClasses(f) /\ UNCHANGED Rest

RemoveAllFileData ==
    \E f \in Files : CanMutate /\ removeAllFileData(f) /\ UNCHANGED Rest

GetFileTypes ==
    \E f \in Files : callGetFileTypes(f) /\ UNCHANGED Rest

Next ==
    \/ AddLocalClass
    \/ AddImportedClass
    \/ AddTypeAlias
    \/ AddTypeVar
    \/ AddProtocol
    \/ AddLiteralType
    \/ RemoveFileClasses
    \/ RemoveAllFileData
    \/ GetFileTypes

Spec == Init /\ [][Next]_vars

\* ---------------------------------------------------- cache specification

GetAllCustomTypeHints == \E d \in PythonDocs : getAllCustomTypeHints(d)

GetBuiltinHints == \E d \in PythonDocs : getBuiltinHints(d)

ClearCache == \E d \in PythonDocs : clearCache(d)

ConfigurationChanged ==
    \E configured \in {"true", "false", Undefined} : onDidChangeConfiguration(configured)

\* registry mutations between requests, while the version is below its bound
AliasAdded == currentVersion < MaxCacheVersion /\ AddTypeAlias

FileDataRemoved == currentVersion < MaxCacheVersion /\ RemoveAllFileData

NextCache ==
    \/ AliasAdded
    \/ FileDataRemoved
    \/ GetAllCustomTypeHints
    \/ GetBuiltinHints
    \/ ClearCache
    \/ ConfigurationChanged

SpecCache == Init /\ [][NextCache]_vars

\* ------------------------------------------------ extension specification

\* before activation: nothing parsed, no TypeCache yet, documents hold any
\* text; the grammar engine loads
InitExt ==
    /\ localClasses = EmptyMap /\ importedClasses = EmptyMap /\ typeAliases = EmptyMap
    /\ typeVars = EmptyMap /\ protocols = EmptyMap /\ literalTypes = EmptyMap
    /\ currentVersion = 0
    /\ cacheCreated = FALSE
    /\ cache = EmptyMap
    /\ appendBrackets = TRUE
    /\ nextId = 1
    /\ result = Outcome("init", "", FALSE, NoValue)
    /\ activated = FALSE
    /\ docText \in [Files -> DocumentTexts]
    /\ parsedText = NoDocs
    /\ treeSitter = TRUE
    /\ scan = NoScan

Editors == PythonDocs \cup {DocN, NoEditor}
TriggerCharacters == {":", ">"}

Activate ==
    \E e \in Editors : ~activated /\ activate(e)

TextChanged ==
    \E d \in PythonDocs \cup {DocN}, t \in DocumentTexts :
        /\ activated
        /\ watchCurrentDocument(d, t)
        /\ UNCHANGED <<cacheCreated, cache, appendBrackets, nextId, activated, treeSitter,
                       scan>>

ActiveEditorChanged ==
    \E e \in Editors : activated /\ onDidChangeActiveTextEditor(e)

ParamCompletion ==
    \E d \in PythonDocs, t \in TriggerCharacters,
       shouldProvide \in BOOLEAN, param \in BOOLEAN, cancelled \in BOOLEAN :
        /\ activated
        /\ ParamCompletionProvider(Request(d, cancelled), d, t, shouldProvide, param,
                                   cancelled)

ReturnValueCompletion ==
    \E d \in PythonDocs, t \in TriggerCharacters,
       shouldProvide \in BOOLEAN, cancelled \in BOOLEAN :
        /\ activated
        /\ ReturnValueCompletionProvider(Request(d, cancelled), d, t, shouldProvide)

VariableCompletion ==
    \E d \in PythonDocs, t \in TriggerCharacters,
       shouldProvide \in BOOLEAN, cancelled \in BOOLEAN :
        /\ activated
        /\ VariableCompletionProvider(Request(d, cancelled), d, t, shouldProvide, cancelled)

NextExt ==
    \/ Activate
    \/ TextChanged
    \/ ActiveEditorChanged
    \/ ParamCompletion
    \/ ReturnValueCompletion
    \/ VariableCompletion

SpecExt == InitExt /\ [][NextExt]_vars

\* ------------------------------- extension without the grammar engine

\* as InitExt, but require('tree-sitter') fails in every ASTService
InitStub ==
    /\ localClasses = EmptyMap /\ importedClasses = EmptyMap /\ typeAliases = EmptyMap
    /\ typeVars = EmptyMap /\ protocols = EmptyMap /\ literalTypes = EmptyMap
    /\ currentVersion = 0
    /\ cacheCreated = FALSE
    /\ cache = EmptyMap
    /\ appendBrackets = TRUE
    /\ nextId = 1
    /\ result = Outcome("init", "", FALSE, NoValue)
    /\ activated = FALSE
    /\ docText \in [Files -> DocumentTexts]
    /\ parsedText = NoDocs
    /\ treeSitter = FALSE
    /\ scan = NoScan

SpecStub == InitStub /\ [][NextExt]_vars

\* ------------------------------------------------ workspace scan specification

\* the TypeCache exists, the documents hold any text, nothing is parsed
InitScan ==
    /\ localClasses = EmptyMap /\ importedClasses = EmptyMap /\ typeAliases = EmptyMap
    /\ typeVars = EmptyMap /\ protocols = EmptyMap /\ literalTypes = EmptyMap
    /\ currentVersion = 0
    /\ cacheCreated = TRUE
    /\ cache = EmptyMap
    /\ appendBrackets = TRUE
    /\ nextId = 1
    /\ result = Outcome("init", "", FALSE, NoValue)
    /\ activated = TRUE
    /\ docText \in [Files -> DocumentTexts]
    /\ parsedText = NoDocs
    /\ treeSitter = TRUE
    /\ scan = NoScan

\* what findFiles may return: the python files the workspace holds, in any
\* order
ScanOrders ==
    {order \in UNION {[1..n -> Files] : n \in 0..Cardinality(Files)} :
        \A i, j \in 1..Len(order) : i # j => order[i] # order[j]}

ScanFrame == UNCHANGED <<cacheCreated, cache, appendBrackets, nextId, activated, docText,
                         treeSitter>>

ScanStarts == \E order \in ScanOrders : scanWorkspace(order) /\ ScanFrame

FileRead == readFileResolves /\ ScanFrame

FileReadFails == readFileRejects /\ ScanFrame

NextScan ==
    \/ ScanStarts
    \/ FileRead
    \/ FileReadFails

SpecScan == InitScan /\ [][NextScan]_vars

\* ------------------------------------------------ item creation specification
\* BaseTypeProcess.newCompletionItem and selectedCompletionItem called with
\* any hint and sort prefix.

\* hints: an optional `typing.`, a name of the typing catalog, of the builtin
\* catalog or of neither, and an optional bracket suffix
TypeHints ==
    {pre \o <<name>> \o suf :
        pre \in {<< >>, <<"typing.">>},
        name \in {"List", "Any", "str", "list", "Foo"},
        suf \in {<< >>, <<"[]">>, <<"[">>, <<"]">>}}

SortTextPrefixes == {"0b", "1", "90"}

NewCompletionItem ==
    \E hint \in TypeHints, sortTextPrefix \in SortTextPrefixes :
        /\ result' = Outcome("newCompletionItem",
                             [hint |-> hint, sortTextPrefix |-> sortTextPrefix], FALSE,
                             newCompletionItem(hint, sortTextPrefix))
        /\ UNCHANGED <<registry, currentVersion, cache, nextId>>
        /\ UNCHANGED <<cacheCreated, appendBrackets, activated, docText, parsedText,
                       treeSitter, scan>>

SelectedCompletionItem ==
    \E hint \in TypeHints, sortTextPrefix \in SortTextPrefixes :
        /\ result' = Outcome("selectedCompletionItem",
                             [hint |-> hint, sortTextPrefix |-> sortTextPrefix], FALSE,
                             selectedCompletionItem(hint, sortTextPrefix))
        /\ UNCHANGED <<registry, currentVersion, cache, nextId>>
        /\ UNCHANGED <<cacheCreated, appendBrackets, activated, docText, parsedText,
                       treeSitter, scan>>

NextItem ==
    \/ NewCompletionItem
    \/ SelectedCompletionItem

SpecItem == Init /\ [][NextItem]_vars

\* ---------------------------------------------- line request specification
\* The three providers asked at any cursor of a one-line document, a.py.

LineTexts ==
    { <<"x", ":">>,
      <<"x", " ", ":", "=">>,
      <<"a", "b", " ", ":", "=">>,
      <<"_", "v", "1", ":", "=">>,
      <<"x", " ", "-", ">">>,
      <<"d", "e", "f", " ", "t", "e", "s", "t", "(", ")", " ", "-", ">">>,
      <<"d", "e", "f", " ", "t", "e", "s", "t", "(", "p", "a", "r", "a", "m", ":">>,
      <<"a", "s", "y", "n", "c", " ", "d", "e", "f", " ", "f", "(", "a", ",", " ", "b", ":">> }

ParamRequest ==
    \E d \in {DocA}, text \in LineTexts, t \in TriggerCharacters,
       cancelled \in BOOLEAN, astFound \in BOOLEAN :
        \E character \in 0..Len(text) :
            provideParamCompletionItems(d, text, character, t, cancelled, astFound)

ReturnValueRequest ==
    \E d \in {DocA}, text \in LineTexts, t \in TriggerCharacters, cancelled \in BOOLEAN :
        \E character \in 0..Len(text) :
            provideReturnValueCompletionItems(d, text, character, t, cancelled)

VariableRequest ==
    \E d \in {DocA}, text \in LineTexts, t \in TriggerCharacters, cancelled \in BOOLEAN :
        \E character \in 0..Len(text) :
            provideVariableCompletionItems(d, text, character, t, cancelled)

NextLine ==
    \/ ParamRequest
    \/ ReturnValueRequest
    \/ VariableRequest

SpecLine == Init /\ [][NextLine]_vars

\* ================================================================ claims

GetterOps == {"getAllCustomTypeHints", "getBuiltinHints"}

\* the identities of the list objects the cache holds
CachedIds(c) == {c[k].id : k \in DOMAIN c}

\* C1: getOrCreate(key, document, creator), for every (document, key): if
\* the entry under the key carries the current version, the call returns
\* that stored list (same identity), does not run creator and leaves the
\* cache as it is; otherwise it runs creator exactly once, puts the new
\* list under the key stamped with the current version, returns that new
\* list, and leaves every other entry alone.
C1_GetOrCreateContract ==
    [][ result'.op \in GetterOps =>
          LET k == result'.arg
          IN  IF k \in DOMAIN cache /\ cache[k].version = currentVersion
              THEN /\ result'.value.creatorCalls = 0
                   /\ result'.value.id = cache[k].id
                   /\ cache' = cache
              ELSE /\ result'.value.creatorCalls = 1
                   /\ result'.value.id \notin CachedIds(cache)
                   /\ DOMAIN cache' = DOMAIN cache \cup {k}
                   /\ cache'[k].id = result'.value.id
                   /\ cache'[k].version = currentVersion
                   /\ \A j \in DOMAIN cache \ {k} : cache'[j] = cache[j] ]_vars

\* a getter found a list stamped with an older version and replaced it
C1_Witness ==
    /\ result.op \in GetterOps
    /\ result.value.creatorCalls = 1
    /\ result.value.replaced >= 1
    /\ cache[result.arg].version = currentVersion
    /\ currentVersion >= 1

MutatingOps ==
    {"addLocalClass", "addImportedClass", "addTypeAlias", "addTypeVar", "addProtocol",
     "addLiteralType", "removeAllFileData"}

\* C2: every successful mutating registry call (the six add* calls and
\* removeAllFileData) raises the cache's version counter by exactly 1,
\* whatever the category and however many entries a bulk removal deletes,
\* and no step ever lowers the version counter.
C2_VersionPlusOnePerCall ==
    [][ /\ (result'.op \in MutatingOps /\ ~result'.threw)
            => currentVersion' = currentVersion + 1
        /\ currentVersion' >= currentVersion ]_vars

\* a bulk removal that deleted at least two entries has just run
C2_Witness ==
    /\ result.op = "removeAllFileData"
    /\ result.value >= 2
    /\ currentVersion >= 3

\* C3: removeAllFileData(path) leaves no entry of path in any of the six
\* maps, deletes nothing else, and leaves every entry of another file
\* present and unchanged.
C3_RemoveAllFileDataExact ==
    [][ result'.op = "removeAllFileData" =>
          \A i \in 1..6 :
             /\ \A k \in DOMAIN registry'[i] : registry'[i][k].filePath # result'.arg
             /\ DOMAIN registry'[i] \subseteq DOMAIN registry[i]
             /\ \A k \in DOMAIN registry[i] :
                   registry[i][k].filePath # result'.arg
                      => /\ k \in DOMAIN registry'[i]
                         /\ registry'[i][k] = registry[i][k] ]_vars

\* a removal deleted entries of its file and an entry of the other file,
\* in the protocol or literal-type map, is still there
C3_Witness ==
    /\ result.op = "removeAllFileData"
    /\ result.value >= 1
    /\ \E k \in DOMAIN protocols : protocols[k].filePath # result.arg

\* the entries of a category map defined in filePath
OfFile(map, filePath) ==
    [k \in {n \in DOMAIN map : map[n].filePath = filePath} |-> map[k]]

\* what the most recent parse of a file found: the maps that parse alone
\* builds
LatestParse(filePath) ==
    parseFileContent(EmptyRegistry, 0, FALSE,
                     analyse(parseCode(treeSitter, parsedText[filePath])), filePath).reg

\* C4: after any sequence of document events (initial parse, text change,
\* active-editor switch), for every file parsed at least once the registry
\* entries defined in that file are exactly the symbols its most recent
\* parse found: none stale, none missing.
C4_RegistryReflectsLatestParse ==
    \A f \in Files :
        parsedText[f] # 0 =>
            \A i \in 1..6 : OfFile(registry[i], f) = LatestParse(f)[i]

\* the names getFileTypes lists for a file
ListedNames(reg, filePath) ==
    {t.name : t \in BagToSet(getFileTypes(reg, filePath))}

\* the labels of the custom candidates of a file
CandidateNames(reg, filePath) ==
    {item.label[1] : item \in customItems(reg, filePath, appendBrackets)}

\* C5: when two different files have both been analysed and both define a
\* symbol of the same name in the same category, the registry holds the
\* symbol of each file, and the per-file listing and the custom candidates
\* of each of the two files include the name.
C5_SameNameInTwoFiles ==
    \A a \in Files, b \in Files :
        (a # b /\ parsedText[a] # 0 /\ parsedText[b] # 0) =>
            \A i \in 1..6 :
                \A n \in DOMAIN LatestParse(a)[i] \cap DOMAIN LatestParse(b)[i] :
                    /\ n \in DOMAIN OfFile(registry[i], a)
                    /\ n \in ListedNames(registry, a)
                    /\ n \in CandidateNames(registry, a)

\* C6: a custom-candidate request that directly follows another one for the
\* same document returns the same list object without running the creator;
\* a request that directly follows addTypeAlias(name, _, file of the
\* document) returns a newly created list, different from every list cached
\* before, that contains the item of the new alias.
C6_SameListUntilAliasAdded ==
    [][ result'.op = "getAllCustomTypeHints" =>
          /\ (result.op = "getAllCustomTypeHints" /\ result.arg = result'.arg)
                => /\ result'.value.id = result.value.id
                   /\ result'.value.creatorCalls = 0
          /\ \A d \in PythonDocs :
                (/\ result.op = "addTypeAlias"
                 /\ result.arg[2] = d.fsPath
                 /\ result'.arg = generateCacheKey(allCustomTypesKey(d), d))
                => /\ result'.value.creatorCalls = 1
                   /\ result'.value.id \notin CachedIds(cache)
                   /\ \E item \in Items(cache'[result'.arg].items) :
                         /\ item.label = <<result.arg[1]>>
                         /\ item.detail[2] = "Alias for" ]_vars

\* the only mutation so far added an alias; the request replaced the list
\* cached before it by a list holding the alias item
C6_Witness ==
    /\ result.op = "getAllCustomTypeHints"
    /\ result.value.replaced >= 1
    /\ currentVersion = 1
    /\ Entries(registry) = 1
    /\ \E item \in Items(cache[result.arg].items) : item.detail[2] = "Alias for"

\* C7: addLocalClass with an empty class name or an empty file path throws
\* and changes nothing: no map changes and the version counter stays.
C7_AddLocalClassRejectsEmpty ==
    [][ (result'.op = "addLocalClass" /\ (result'.arg[1] = "" \/ result'.arg[2] = ""))
          => /\ result'.threw
             /\ registry' = registry
             /\ currentVersion' = currentVersion ]_vars

\* an invalid addLocalClass was rejected while the registry held entries
C7_Witness ==
    /\ result.op = "addLocalClass"
    /\ result.threw
    /\ result.arg[1] = ""
    /\ Entries(registry) >= 1

\* the listing the claim describes: all six categories, imported classes
\* always refinable
AllSixFileTypes(reg, filePath) ==
    getFileTypes(reg, filePath) (+) FileTypesOf(reg[2], filePath, "importedClass")

\* C8: getFileTypes(path) returns one {name, isRefinable} record for every
\* entry of each of the six categories defined in path, imported classes
\* included (refinable), and for no other entry.
C8_GetFileTypesAllSix ==
    result.op = "getFileTypes" => result.value = AllSixFileTypes(registry, result.arg)

\* C9: after a configuration-change event every list cached before it is
\* stale: no entry of the cache passes the version test of getOrCreate, so
\* the next call for any (document, key) runs the producer again.
C9_ConfigChangeInvalidatesCache ==
    result.op = "onDidChangeConfiguration" =>
        \A k \in DOMAIN cache : cache[k].version # currentVersion

ProviderOps ==
    {"ParamCompletionProvider", "ReturnValueCompletionProvider", "VariableCompletionProvider"}

\* C10: a completion request whose cancellation token is set writes nothing
\* to the cache, in the parameter, the return-value and the variable
\* provider alike: no entry is created and none is replaced.
C10_CancelledRequestWritesNothing ==
    [][ (result'.op \in ProviderOps /\ result'.arg.cancelled) => cache' = cache ]_vars

\* C11: when the grammar engine could not be initialised, parseCode returns
\* the empty fallback tree for every text, findNodes, findAllClassDefinitions
\* and findAllImports return empty lists, no handler throws, and no analysis
\* of any document adds an entry to the registry.
C11_StubAddsNothing ==
    ~treeSitter =>
        /\ \A t \in DocumentTexts :
              LET tree == parseCode(treeSitter, t)
              IN  /\ tree.rootNode.children = << >>
                  /\ findNodes(tree, "class_definition") = << >>
                  /\ findNodes(tree, "assignment") = << >>
                  /\ findAllClassDefinitions(tree) = << >>
                  /\ findAllImports(tree) = << >>
        /\ ~result.threw
        /\ Entries(registry) = 0

\* without the grammar engine, a document that declares symbols was analysed
\* on a switch of the active editor
C11_Witness ==
    /\ ~treeSitter
    /\ result.op = "onDidChangeActiveTextEditor"
    /\ \E f \in Files :
          /\ parsedText[f] = 2
          /\ docText[f] = 2
          /\ result.arg = [d \in PythonDocs |-> d.uri][CHOOSE d \in PythonDocs : d.fsPath = f]

\* what this revision's parse of a file's text finds
ScanParse(filePath) ==
    scanParseFileContent(EmptyRegistry, 0, FALSE,
                         analyse(parseCode(treeSitter, docText[filePath])), filePath).reg

\* C12: when the workspace scan has ended, every file of the enumeration
\* whose read did not fail was read and analysed and the names it declares
\* are in the registry: a failed read skips that one file only.
C12_ScanSkipsOnlyFailedFile ==
    scan.state \in {"completed", "rejected"} =>
        \A i \in 1..Len(scan.files) :
            scan.files[i] \notin scan.failed =>
                /\ scan.files[i] \in scan.analysed
                /\ \A c \in 1..6 :
                      DOMAIN ScanParse(scan.files[i])[c] \subseteq DOMAIN registry[c]

\* the candidate built for entry `name` of category i is in the list
CandidateFor(list, i, name) ==
    \E item \in Items(list) :
        item.label = <<name>> /\ item.sortText = <<customSortPrefix + i - 1, name>>

\* the custom list of document d built at the current version, if cached
FreshCustomList(d) ==
    LET k == generateCacheKey(allCustomTypesKey(d), d)
    IN  IF k \in DOMAIN cache /\ cache[k].version = currentVersion
        THEN {cache[k].items} ELSE {}

\* C13: the custom candidates built for a document hold a candidate for a
\* registry entry exactly when the entry's defining file is the document's
\* file path; symbols of other files never appear.
C13_CustomCandidatesOfOwnFileOnly ==
    \A d \in PythonDocs : \A list \in FreshCustomList(d) :
        \A i \in 1..6 : \A name \in DOMAIN registry[i] :
            CandidateFor(list, i, name) <=> registry[i][name].filePath = d.fsPath

\* a list was built for a document while the registry holds a symbol of the
\* document's file and a symbol of another file
C13_Witness ==
    \E d \in PythonDocs : \E list \in FreshCustomList(d) :
        /\ \E i \in 1..6 : \E name \in DOMAIN registry[i] :
              registry[i][name].filePath = d.fsPath /\ CandidateFor(list, i, name)
        /\ \E i \in 1..6 : \E name \in DOMAIN registry[i] :
              registry[i][name].filePath # d.fsPath

\* the list object with identity id, as the cache holds it
ListWithId(c, id) == c[CHOOSE k \in DOMAIN c : c[k].id = id].items

\* the lists a served request pushed to its items, in order
ServedLists(c, served) == [i \in 1..Len(served) |-> ListWithId(c, served[i])]

\* sort texts are compared as strings: numeric prefixes of two digits
\* compare as the numbers do
TwoDigits(prefix) == prefix \in 10..99

SortKeyOfBaseItem(item, prefix) ==
    /\ item.sortText = <<prefix>> \o SubSeq(item.label, 2, Len(item.label))
    /\ item.label[1] = " "

SortKeyOfCustomItem(item) ==
    /\ item.sortText[1] \in customSortPrefix..(customSortPrefix + 5)
    /\ item.sortText = <<item.sortText[1]>> \o item.label

ProviderServed ==
    /\ result.op \in ProviderOps
    /\ result.value.returned = "CompletionList"
    /\ result.value.served # << >>

\* the catalog lists a creator can build
CatalogLists(of) ==
    IF of = "builtin" THEN {BuiltinList(b) : b \in BOOLEAN} ELSE {TypingList(b) : b \in BOOLEAN}

\* every item of every catalog list of a class carries prefix + name
CatalogSortKeys(of, prefix) ==
    \A list \in CatalogLists(of) :
        \A i \in DOMAIN Items(list) : SortKeyOfBaseItem(Items(list)[i], prefix)

Categories ==
    <<"localClass", "importedClass", "typeAlias", "typeVar", "protocol", "literalType">>

\* what the editor inserts for an item: its insertText, or its label when
\* the item has none
Inserted(item) == IF item.insertText # << >> THEN item.insertText ELSE item.label

\* item of a catalog list built from typeName with category `category`
\* under setting b: Name[$1] exactly when refinable and b, else the name
\* (after the label's leading space)
CatalogInsertion(item, typeName, category, b) ==
    /\ Inserted(item) = <<typeName, "[$1]">> <=> (category = Refinable /\ b)
    /\ Inserted(item) # <<typeName, "[$1]">> => Inserted(item) = <<" ", typeName>>

CustomInsertion(item, name, refinable, b) ==
    /\ Inserted(item) = <<name, "[$1]">> <=> (refinable /\ b)
    /\ Inserted(item) # <<name, "[$1]">> => Inserted(item) = <<name>>

\* every item of both catalogs, under both values of the setting
CatalogInsertions ==
    \A b \in BOOLEAN :
        /\ \A i \in 1..Len(BuiltinTypes) :
              CatalogInsertion(builtinItems(b)[i], BuiltinTypes[i],
                               builtInTypeCategories(BuiltinTypes[i]), b)
        /\ \A i \in 1..Len(TypingTypes) :
              CatalogInsertion(typingItems(b)[i], TypingTypes[i],
                               typingTypeCategories(TypingTypes[i]), b)

\* the custom candidates of every document from the registry of this state
CustomInsertions ==
    \A b \in BOOLEAN : \A d \in PythonDocs : \A i \in 1..6 :
        \A name \in {n \in DOMAIN registry[i] : registry[i][n].filePath = d.fsPath} :
            \E item \in customItems(registry, d.fsPath, b) :
                /\ item.sortText = <<customSortPrefix + i - 1, name>>
                /\ CustomInsertion(item, name,
                                   isRefinable(Categories[i], registry[i][name]), b)

\* C15: a candidate inserts Name[$1] exactly when its type is refinable and
\* appendBrackets is enabled, and the bare name otherwise; for the builtin
\* and typing catalogs and for the custom candidates of every document.
C15_PlaceholderIffRefinableAndBrackets == CatalogInsertions /\ []CustomInsertions

\* a request was served a custom list that holds a candidate with the
\* placeholder and a candidate without it
C15_Witness ==
    /\ ProviderServed
    /\ \E x, y \in Items(ServedLists(cache, result.value.served)[1]) :
          /\ x.insertText = x.label \o <<"[$1]">>
          /\ y.insertText = << >>

ItemOps == {"newCompletionItem", "selectedCompletionItem"}

TypingCatalog == {<<t>> : t \in Values(TypingTypes)}

\* C16 as stated: the item has label = one space + hint, sort text =
\* prefix + hint, and detail '[typing]' exactly when the hint with its
\* trailing brackets removed is a name of the typing catalog, '[builtin]'
\* otherwise.
C16_BaseItemFields ==
    result.op \in ItemOps =>
        /\ result.value.label = <<" ">> \o result.arg.hint
        /\ result.value.sortText = <<result.arg.sortTextPrefix>> \o result.arg.hint
        /\ result.value.detail =
              IF removeBrackets(result.arg.hint) \in TypingCatalog
              THEN "[typing]" ELSE "[builtin]"

\* C16 amended: as C16, with the name looked up in the typing catalog being
\* the hint with its trailing brackets and its `typing.` prefix removed.
C16_BaseItemFieldsPrefixRemoved ==
    result.op \in ItemOps =>
        /\ result.value.label = <<" ">> \o result.arg.hint
        /\ result.value.sortText = <<result.arg.sortTextPrefix>> \o result.arg.hint
        /\ result.value.detail =
              IF \E pre \in {<< >>, <<"typing.">>}, name \in TypingCatalog,
                    suf \in {<< >>, <<"[]">>, <<"[">>, <<"]">>} :
                        result.arg.hint = pre \o name \o suf
              THEN "[typing]" ELSE "[builtin]"

\* an item was created for `typing.List[]`
C16_Witness ==
    /\ result.op \in ItemOps
    /\ result.arg.hint = <<"typing.", "List", "[]">>
    /\ result.value.detail = "[typing]"

\* the index just after the first `:` of text, 0 when it has none
AfterColon(text) ==
    IF \E i \in 1..Len(text) : text[i] = ":"
    THEN CHOOSE i \in 1..Len(text) : text[i] = ":" /\ \A j \in 1..(i - 1) : text[j] # ":"
    ELSE 0

\* a variable name, optional blanks and `:=`
WalrusLine(text) ==
    \E n \in 1..Len(text) :
        /\ text[1] \in IdentifierStart
        /\ AllIn(text, 2, n, IdentifierPart)
        /\ \E colon \in (n + 1)..Len(text) :
              /\ AllIn(text, n + 1, colon - 1, {" "})
              /\ HasAt(text, colon, <<":", "=">>)

\* C17: VariableCompletionProvider.provideCompletionItems returns null when
\* the colon at the cursor belongs to a walrus operator `:=` (the cursor is
\* just after the colon of `x :=`), for every variable name.
C17_WalrusGivesNull ==
    ( /\ result.op = "VariableCompletionProvider"
      /\ WalrusLine(result.arg.text)
      /\ result.arg.character = AfterColon(result.arg.text) )
    => result.value.returned = "null"

\* C18: ReturnValueCompletionProvider.provideCompletionItems returns null
\* when the `->` before the cursor is not part of a function definition:
\* the line does not match `) ->`, as in `x ->`.
C18_ArrowOutsideDefGivesNull ==
    ( /\ result.op = "ReturnValueCompletionProvider"
      /\ substring(result.arg.text, result.arg.character - 2, result.arg.character)
            = <<"-", ">">>
      /\ ~returnPattern(result.arg.text) )
    => result.value.returned = "null"

\* the trigger character each provider answers to
TriggerOf(op) ==
    CASE op = "ParamCompletionProvider" -> paramHintTrigger
      [] op = "ReturnValueCompletionProvider" -> returnHintTrigger
      [] OTHER -> variableHintTrigger

\* the line of the request satisfies the pattern of the provider `op`
LineSatisfiesPattern(op, text, character) ==
    CASE op = "ParamCompletionProvider" ->
           /\ paramShouldProvideItems(trim(substring(text, 0, character - 1)), character, text)
           /\ getParam(trim(substring(text, 0, character - 1)), FALSE)
      [] op = "ReturnValueCompletionProvider" -> returnShouldProvideItems(text, character)
      [] OTHER -> shouldProvideVariableHint(trim(substring(text, 0, character)))

\* the number of items of the lists put in a CompletionList
ItemCount(lists) ==
    LET count(list) == IF list.of = "custom" THEN Cardinality(list.custom)
                       ELSE Len(Items(list))
        RECURSIVE sum(_)
        sum(i) == IF i = 0 THEN 0 ELSE count(lists[i]) + sum(i - 1)
    IN  sum(Len(lists))

\* C19: with the default settings, a request whose trigger character is the
\* provider's, whose line satisfies the provider's pattern and whose token
\* is not cancelled gets a completion list of at least one item; a request
\* with another trigger character gets null.
C19_MatchingRequestGetsItems ==
    result.op \in ProviderOps =>
        /\ result.arg.triggerCharacter # TriggerOf(result.op) =>
              result.value.returned = "null"
        /\ ( /\ result.arg.triggerCharacter = TriggerOf(result.op)
             /\ LineSatisfiesPattern(result.op, result.arg.text, result.arg.character)
             /\ ~result.arg.cancelled )
           => /\ result.value.returned = "CompletionList"
              /\ ItemCount(ServedLists(cache, result.value.served)) >= 1

\* the parameter provider was asked at `def test(param:` and answered with
\* a list
C19_Witness ==
    /\ result.op = "ParamCompletionProvider"
    /\ result.arg.text = <<"d", "e", "f", " ", "t", "e", "s", "t", "(", "p", "a", "r", "a", "m", ":">>
    /\ result.arg.character = 14
    /\ result.arg.triggerCharacter = ":"
    /\ ~result.arg.cancelled
    /\ result.value.returned = "CompletionList"

\* C20: clearDocumentCache(document) removes every entry owned by the
\* document, whatever its version stamp, leaves the entries of the other
\* documents as they were, and leaves the current version as it was.
C20_ClearDocumentCacheFrame ==
    [][result'.op = "clearCache" =>
          /\ \A k \in DOMAIN cache :
                IF cache[k].document = result'.arg
                THEN k \notin DOMAIN cache'
                ELSE k \in DOMAIN cache' /\ cache'[k] = cache[k]
          /\ DOMAIN cache' \subseteq DOMAIN cache
          /\ currentVersion' = currentVersion
       ]_vars

\* the cache of a.py was cleared after two lists had been created and the
\* version raised: the list of b.py, built at the current version, is kept
C20_Witness ==
    /\ result.op = "clearCache"
    /\ result.arg = DocA.uri
    /\ nextId = 3
    /\ currentVersion >= 1
    /\ \E k \in DOMAIN cache :
          /\ cache[k].document = DocB.uri
          /\ cache[k].version = currentVersion
    /\ Cardinality(DOMAIN cache) = 1

\* ------------------------------------------------ analysis specification
\* The extension with documents that hold any of the analysed texts: the
\* active document is parsed on activation, and every text change removes
\* the entries of the document's file and parses the document again.
InitAnalysis ==
    /\ localClasses = EmptyMap /\ importedClasses = EmptyMap /\ typeAliases = EmptyMap
    /\ typeVars = EmptyMap /\ protocols = EmptyMap /\ literalTypes = EmptyMap
    /\ currentVersion = 0
    /\ cacheCreated = FALSE
    /\ cache = EmptyMap
    /\ appendBrackets = TRUE
    /\ nextId = 1
    /\ result = Outcome("init", "", FALSE, NoValue)
    /\ activated = FALSE
    /\ docText \in [Files -> AnalysedTexts]
    /\ parsedText = NoDocs
    /\ treeSitter = TRUE
    /\ scan = NoScan

Edited ==
    \E d \in PythonDocs \cup {DocN}, t \in AnalysedTexts :
        /\ activated
        /\ watchCurrentDocument(d, t)
        /\ UNCHANGED <<cacheCreated, cache, appendBrackets, nextId, activated, treeSitter,
                       scan>>

NextAnalysis ==
    \/ Activate
    \/ Edited

SpecAnalysis == InitAnalysis /\ [][NextAnalysis]_vars

\* the document a listener was called with, and the file of that document
DocumentOf(uri) == CHOOSE d \in PythonDocs \cup {DocN} : d.uri = uri
EditedFile == DocumentOf(result.arg).fsPath

\* the six maps a parse of a text for a file fills when nothing was
\* registered before
FreshParse(text, filePath) ==
    parseFileContent(EmptyRegistry, 0, FALSE, analyse(parseCode(TRUE, text)), filePath).reg

\* C21: a text change of a Python document removes the entries of the
\* document's file and parses the document; the entries the registry then
\* holds for the file are those a parse of that text yields on an empty
\* registry, whatever the registry held before and whatever the other
\* files contributed.  Analysing the same text twice therefore leaves the
\* same entries for the file after each pass.
C21_EntriesOfFileDependOnTextOnly ==
    [][(result'.op = "onDidChangeTextDocument" /\ result'.arg \in {DocA.uri, DocB.uri}) =>
          LET f == DocumentOf(result'.arg).fsPath
          IN  \A i \in 1..6 :
                 OfFile(<<localClasses', importedClasses', typeAliases', typeVars',
                          protocols', literalTypes'>>[i], f)
                 = FreshParse(docText'[f], f)[i]
       ]_vars

\* a.py was analysed again while the registry holds entries of b.py, and
\* a.py has entries in three categories
C21_Witness ==
    /\ result.op = "onDidChangeTextDocument"
    /\ result.arg = DocA.uri
    /\ parsedText["a.py"] = docText["a.py"]
    /\ currentVersion >= 2
    /\ \E i \in 1..6 : OfFile(registry[i], "b.py") # EmptyMap
    /\ Cardinality({i \in 1..6 : OfFile(registry[i], "a.py") # EmptyMap}) >= 3

\* the syntax tree of the text a document holds after a text change
TreeOf(text) == Inner("module", "", SyntaxTrees[text])
NodesOfType(text, type) == SelectSeq(traverseTree(TreeOf(text)), LAMBDA n : n.type = type)
\* the identifier children of the first child of a type, in source order
IdentifierChildren(node) ==
    [i \in 1..Len(SelectSeq(node.children, LAMBDA c : c.type = "identifier")) |->
        SelectSeq(node.children, LAMBDA c : c.type = "identifier")[i].text]
ArgumentIdentifiers(node) ==
    LET lists == SelectSeq(node.children, LAMBDA c : c.type = "argument_list")
    IN  IF lists = << >> THEN << >> ELSE IdentifierChildren(lists[1])
\* a python document was edited and the listener returned
TextChangeStep ==
    /\ result'.op = "onDidChangeTextDocument"
    /\ result'.arg \in {DocA.uri, DocB.uri}
AfterTextChange ==
    /\ result.op = "onDidChangeTextDocument"
    /\ result.arg \in {DocA.uri, DocB.uri}

\* C22: after a parse, every class definition that has a name is entered
\* once: as a Protocol when the identifiers of its argument list include
\* Protocol, otherwise as a LocalClass whose base list is the identifiers of
\* its argument list in source order, never as both; a class definition
\* without a name enters nothing, and the parse does not throw.
C22_ClassEnteredOnce ==
    [][TextChangeStep =>
          LET f == DocumentOf(result'.arg).fsPath
              classes == NodesOfType(docText'[f], "class_definition")
              named == SelectSeq(classes, LAMBDA n : IdentifierChildren(n) # << >>)
              name(n) == IdentifierChildren(n)[1]
              locals == OfFile(localClasses', f)
              protos == OfFile(protocols', f)
          IN  /\ ~result'.threw
              /\ \A i \in 1..Len(named) :
                    IF "Protocol" \in Values(ArgumentIdentifiers(named[i]))
                    THEN /\ name(named[i]) \in DOMAIN protos
                         /\ name(named[i]) \notin DOMAIN locals
                    ELSE /\ name(named[i]) \in DOMAIN locals
                         /\ locals[name(named[i])].baseClasses = ArgumentIdentifiers(named[i])
                         /\ name(named[i]) \notin DOMAIN protos
              /\ (DOMAIN locals) \cup (DOMAIN protos) = {name(named[i]) : i \in 1..Len(named)}
       ]_vars

\* the parsed text has a class definition without a name, a class with two
\* bases, a class with the base Protocol after another base, and a class
\* without an argument list
C22_Witness ==
    /\ AfterTextChange
    /\ docText[EditedFile] = 10
    /\ DOMAIN OfFile(localClasses, EditedFile) = {"Foo", "Baz"}
    /\ DOMAIN OfFile(protocols, EditedFile) = {"Bar"}
    /\ localClasses["Foo"].baseClasses = <<"Base", "Mixin">>

\* the names a from-import statement imports: the dotted names after the
\* module's (imported under their own name) and the aliased imports
\* (imported under the alias), as <<registered name, original name>>
ImportedNames(statement) ==
    LET moduleAt == CHOOSE i \in 1..Len(statement.children) :
                        /\ statement.children[i].type = "dotted_name"
                        /\ \A j \in 1..(i - 1) : statement.children[j].type # "dotted_name"
    IN  {<<statement.children[i].text, statement.children[i].text>> :
            i \in {j \in (moduleAt + 1)..Len(statement.children) :
                      statement.children[j].type = "dotted_name"}}
        \cup
        {<<statement.children[i].children[3].text, statement.children[i].children[1].text>> :
            i \in {j \in 1..Len(statement.children) :
                      statement.children[j].type = "aliased_import"}}
ModuleOf(statement) ==
    SelectSeq(statement.children, LAMBDA c : c.type = "dotted_name")[1].text
StartsUpperCase(name) == Chars(name) # << >> /\ Chars(name)[1] \in UpperCase

\* C23: after a parse, every name a from-import statement of a module other
\* than typing imports, and that starts with an upper-case letter, is an
\* ImportedClass: a plain name under its own name, an aliased name under its
\* alias with the name before `as` as original name.
C23_FromImportRegistersEveryName ==
    [][TextChangeStep =>
          LET f == DocumentOf(result'.arg).fsPath
              statements == NodesOfType(docText'[f], "import_from_statement")
              imported == OfFile(importedClasses', f)
          IN  \A i \in 1..Len(statements) :
                 ModuleOf(statements[i]) # "typing" =>
                    \A pair \in ImportedNames(statements[i]) :
                       StartsUpperCase(pair[2]) =>
                          /\ pair[1] \in DOMAIN imported
                          /\ imported[pair[1]].originalName = pair[2]
       ]_vars

\* the typing list holds a [typing] candidate named List, under both values
\* of the brackets setting
TypingListCandidate ==
    \A brackets \in BOOLEAN :
        \E i \in 1..Len(typingItems(brackets)) :
            /\ typingItems(brackets)[i].label[2] = "List"
            /\ typingItems(brackets)[i].detail = "[typing]"

\* C24: a name imported from typing is never entered as an ImportedClass
\* (unless another module's import statement of the same file imports the
\* same name), while the typing catalog still gives the List candidate.
C24_TypingImportsNotRegistered ==
    /\ TypingListCandidate
    /\ [][TextChangeStep =>
            LET f == DocumentOf(result'.arg).fsPath
                statements == NodesOfType(docText'[f], "import_from_statement")
                fromTyping == UNION {ImportedNames(statements[i]) :
                                        i \in {j \in 1..Len(statements) :
                                                  ModuleOf(statements[j]) = "typing"}}
                fromOthers == UNION {ImportedNames(statements[i]) :
                                        i \in {j \in 1..Len(statements) :
                                                  ModuleOf(statements[j]) # "typing"}}
            IN  \A pair \in fromTyping :
                   \/ pair[1] \notin DOMAIN OfFile(importedClasses', f)
                   \/ \E other \in fromOthers : other[1] = pair[1]
         ]_vars

\* the parsed text imports List from typing and Foo from another module:
\* Foo alone is an imported class of the file
C24_Witness ==
    /\ AfterTextChange
    /\ docText[EditedFile] = 6
    /\ DOMAIN OfFile(importedClasses, EditedFile) = {"Foo"}

\* the right side of an assignment, when it is a call or a subscript, and
\* the identifier at its head
RightSides(assignment) ==
    SelectSeq(assignment.children, LAMBDA c : c.type \in {"call", "subscript"})
HeadOf(assignment) ==
    IF RightSides(assignment) = << >> \/ IdentifierChildren(RightSides(assignment)[1]) = << >>
    THEN Undefined
    ELSE IdentifierChildren(RightSides(assignment)[1])[1]
\* the positional arguments of a call: the children of its argument list
\* that are no punctuation
ArgumentsOf(call) ==
    LET lists == SelectSeq(call.children, LAMBDA c : c.type = "argument_list")
    IN  IF lists = << >> THEN << >>
        ELSE SelectSeq(lists[1].children, LAMBDA c : c.type \notin {"(", ",", ")"})
IdentifiersAmong(nodes) ==
    [i \in 1..Len(SelectSeq(nodes, LAMBDA c : c.type = "identifier")) |->
        SelectSeq(nodes, LAMBDA c : c.type = "identifier")[i].text]

\* C25: after a parse, every assignment whose right side is a call of
\* TypeVar has a TypeVariable under the name of its target (the names the
\* parse filters apart), whose constraints are the identifier arguments
\* after the first argument, in order.
C25_TypeVarConstraintsAfterFirstArgument ==
    [][TextChangeStep =>
          LET f == DocumentOf(result'.arg).fsPath
              assignments == NodesOfType(docText'[f], "assignment")
          IN  \A i \in 1..Len(assignments) :
                 (/\ HeadOf(assignments[i]) = "TypeVar"
                  /\ IdentifierChildren(assignments[i]) # << >>
                  /\ IdentifierChildren(assignments[i])[1] \notin {"", "super"}) =>
                    LET target == IdentifierChildren(assignments[i])[1]
                        arguments == ArgumentsOf(RightSides(assignments[i])[1])
                    IN  /\ target \in DOMAIN OfFile(typeVars', f)
                        /\ typeVars'[target].constraints
                           = IF arguments = << >> THEN << >>
                             ELSE IdentifiersAmong(Tail(arguments))
       ]_vars

\* the assignments at module level: those of the expression statements that
\* are children of the module node
ModuleLevelAssignments(text) ==
    Flatten([i \in 1..Len(SyntaxTrees[text]) |->
                IF SyntaxTrees[text][i].type = "expression_statement"
                THEN SelectSeq(SyntaxTrees[text][i].children, LAMBDA c : c.type = "assignment")
                ELSE << >>])
RefinableCatalogTypes ==
    {t \in Values(BuiltinTypes) : builtInTypeCategories(t) = Refinable}
    \cup {t \in Values(TypingTypes) : typingTypeCategories(t) = Refinable}

\* C26: after a parse, the type aliases of the file are the targets of the
\* module-level assignments whose right side has a refinable catalog type at
\* its head, each with the text of the right side as original type;
\* assignments nested in functions or classes give no alias.
C26_AliasIffModuleLevelRefinable ==
    [][TextChangeStep =>
          LET f == DocumentOf(result'.arg).fsPath
              assignments == ModuleLevelAssignments(docText'[f])
              aliasing == SelectSeq(assignments,
                                    LAMBDA a : /\ IdentifierChildren(a) # << >>
                                               /\ HeadOf(a) \in RefinableCatalogTypes)
          IN  /\ DOMAIN OfFile(typeAliases', f)
                 = {IdentifierChildren(aliasing[i])[1] : i \in 1..Len(aliasing)}
              /\ \A i \in 1..Len(aliasing) :
                    typeAliases'[IdentifierChildren(aliasing[i])[1]].originalType
                    = RightSides(aliasing[i])[1].text
       ]_vars

\* names that are empty or hold white space only
BlankNames == {"", " ", "\t"}

\* C27: no entry of any of the six maps has a name that is empty, blank or
\* `super`.
C27_NoBlankOrSuperName ==
    \A i \in 1..6 : \A name \in DOMAIN registry[i] : name \notin BlankNames \cup {"super"}

\* ------------------------------------------- requests sorted by relevance
\* The revision of BaseCompletionProvider whose processTypeHints ends with
\* sortItemsByRelevance(items, name).  The items it pushes are the item
\* objects of the cached arrays, so a list whose items were given new sort
\* texts is held in the cache as the list it was created as together with
\* the name it was last sorted by.

\* toLowerCase() of the parts of a label
LowerCaseOf ==
    "Dict" :> "dict" @@ "List" :> "list" @@ "Set" :> "set" @@ "Tuple" :> "tuple"
    @@ "Iterable" :> "iterable" @@ "Iterator" :> "iterator"
    @@ "AsyncIterator" :> "asynciterator" @@ "AsyncIterable" :> "asynciterable"
    @@ "Generator" :> "generator" @@ "AsyncGenerator" :> "asyncgenerator"
    @@ "Optional" :> "optional" @@ "Union" :> "union" @@ "Annotated" :> "annotated"
    @@ "Callable" :> "callable" @@ "Mapping" :> "mapping"
    @@ "MutableMapping" :> "mutablemapping" @@ "Sequence" :> "sequence"
    @@ "MutableSequence" :> "mutablesequence" @@ "AbstractSet" :> "abstractset"
    @@ "MutableSet" :> "mutableset" @@ "Container" :> "container"
    @@ "Collection" :> "collection" @@ "ItemsView" :> "itemsview" @@ "KeysView" :> "keysview"
    @@ "ValuesView" :> "valuesview" @@ "Awaitable" :> "awaitable" @@ "Coroutine" :> "coroutine"
    @@ "IO" :> "io" @@ "Any" :> "any" @@ "Never" :> "never" @@ "NoReturn" :> "noreturn"
    @@ "ClassVar" :> "classvar" @@ "Final" :> "final" @@ "Self" :> "self"
    @@ "TypeVar" :> "typevar" @@ "TypeVarTuple" :> "typevartuple" @@ "ParamSpec" :> "paramspec"
    @@ "TypeAlias" :> "typealias" @@ "TypeGuard" :> "typeguard" @@ "Generic" :> "generic"
    @@ "Protocol" :> "protocol" @@ "ChainMap" :> "chainmap" @@ "Counter" :> "counter"
    @@ "Deque" :> "deque" @@ "DefaultDict" :> "defaultdict" @@ "OrderedDict" :> "ordereddict"
    @@ "FrozenSet" :> "frozenset" @@ "SupportsAbs" :> "supportsabs"
    @@ "SupportsBytes" :> "supportsbytes" @@ "SupportsComplex" :> "supportscomplex"
    @@ "SupportsFloat" :> "supportsfloat" @@ "SupportsIndex" :> "supportsindex"
    @@ "SupportsInt" :> "supportsint" @@ "SupportsRound" :> "supportsround"
    @@ "Sized" :> "sized" @@ "Hashable" :> "hashable" @@ "Reversible" :> "reversible"
    @@ "ByteString" :> "bytestring" @@ "ContextManager" :> "contextmanager"
    @@ "AsyncContextManager" :> "asynccontextmanager" @@ "BinaryIO" :> "binaryio"
    @@ "TextIO" :> "textio" @@ "Match" :> "match" @@ "Pattern" :> "pattern"
    @@ "AnyStr" :> "anystr" @@ "LiteralString" :> "literalstring" @@ "Literal" :> "literal"
    @@ "Required" :> "required" @@ "NotRequired" :> "notrequired" @@ "Type" :> "type"
    @@ "Concatenate" :> "concatenate" @@ "MappingView" :> "mappingview" @@ "Foo" :> "foo"
    @@ "Bar" :> "bar"
toLowerCase(part) == IF part \in DOMAIN LowerCaseOf THEN LowerCaseOf[part] ELSE part
lowerCased(text) == [i \in 1..Len(text) |-> toLowerCase(text[i])]

\* the names a provider finds before the cursor: none, a name that is a
\* catalog type and a name that is a registered type.  No other lower-cased
\* label part contains one of them, so includes() is membership of the parts
RequestNames == {"", "list", "foo"}

\* (100 - relevance).toString().padStart(2, '0')
padStart2(n) == IF n < 10 THEN "0" \o ToString(n) ELSE ToString(n)

\* the relevance sortItemsByRelevance computes for an item
relevanceOf(item, name) ==
    LET nameLower == toLowerCase(name)
        itemName == lowerCased(item.label)
        base == IF itemName = <<nameLower>> THEN 100
                ELSE IF itemName[1] = nameLower THEN 80
                ELSE IF nameLower \in Values(itemName) THEN 60
                ELSE 40
        custom == IF "preselect" \in DOMAIN item THEN item.detail = "[Custom]"
                  ELSE item.detail[1] = "[Custom]"
    IN  IF custom THEN base + 20 ELSE base

\* the item after the loop body of sortItemsByRelevance
sortedItem(item, name) ==
    [item EXCEPT !.sortText = <<item.sortText[1], padStart2(100 - relevanceOf(item, name))>>
                              \o lowerCased(item.label)]

\* a cached list whose items were last given their sort texts for a name
SortedList(list, name) ==
    [brackets |-> list.brackets, of |-> list.of, custom |-> list.custom, sortedBy |-> name]

\* the items of a cached list as they are now
ItemsNow(list) ==
    IF "sortedBy" \notin DOMAIN list THEN Items(list)
    ELSE IF list.of \in {"builtin", "typing"}
         THEN [i \in 1..Len(Items(list)) |-> sortedItem(Items(list)[i], list.sortedBy)]
         ELSE {sortedItem(item, list.sortedBy) : item \in Items(list)}

\* sortItemsByRelevance(items, name) on the lists whose items were pushed
sortItemsByRelevance(c, served, name) ==
    [k \in DOMAIN c |->
        IF c[k].id \in Values(served)
        THEN [c[k] EXCEPT !.items = SortedList(@, name)]
        ELSE c[k]]

\* TypeHintSettings has no enableFileTypes
enableFileTypes == FALSE

\* processTypeHints(name, documentText, items, token, doc) of this revision
processTypeHintsByRelevance(c, nid, version, reg, brackets, document, name) ==
    LET pushed == processTypeHints(c, nid, version, reg, brackets, document)
    IN  IF name # ""
        THEN [cache |-> sortItemsByRelevance(pushed.cache, pushed.served, name),
              nextId |-> pushed.nextId, served |-> pushed.served]
        ELSE pushed

\* provideCompletionItems of a provider whose text condition holds, with the
\* name it found before the cursor
provideCompletionItems(document, name) ==
    returnsCompletionList(
        "provideCompletionItems", [document |-> document.uri, name |-> name],
        processTypeHintsByRelevance(cache, nextId, currentVersion, registry, appendBrackets,
                                    document, name))

CompletionRequested ==
    \E d \in PythonDocs, name \in RequestNames : provideCompletionItems(d, name)

NextSorted ==
    \/ AliasAdded
    \/ ConfigurationChanged
    \/ CompletionRequested

SpecSorted == Init /\ [][NextSorted]_vars

\* C28: a list object held in the cache keeps its items: no request changes
\* the sort text, the label or the insertion text of an item of a list that
\* was stored before the request.
C28_CachedListsKeepTheirItems ==
    [][\A k \in (DOMAIN cache) \cap (DOMAIN cache') :
          (cache'[k].id = cache[k].id /\ cache'[k].items # cache[k].items) =>
             ItemsNow(cache'[k].items) = ItemsNow(cache[k].items)
      ]_vars

\* the lists a provider step hands out
ServedNow == IF result'.op \in ProviderOps /\ result'.value.returned = "CompletionList"
             THEN Values(result'.value.served) ELSE {}

\* C29: every text change of a Python document raises the cache version by
\* at least one, whether or not the file had or gets symbols; the version
\* never falls, no entry is stamped with a later version than the current
\* one, and a request hands out only lists stamped with the current version:
\* a list cached before the edit is not handed out after it.
C29_TextChangeAdvancesVersion ==
    /\ [][TextChangeStep => currentVersion' >= currentVersion + 1]_vars
    /\ [][currentVersion' >= currentVersion]_vars
    /\ [](\A k \in DOMAIN cache : cache[k].version <= currentVersion)
    /\ [][\A id \in ServedNow :
             \E k \in DOMAIN cache' : cache'[k].id = id /\ cache'[k].version = currentVersion'
         ]_vars

\* an edit left a.py without text while nothing was registered for it, the
\* cache holds lists built before the edit, and none of them is current
C29_Witness ==
    /\ AfterTextChange
    /\ result.arg = DocA.uri
    /\ docText["a.py"] = 1
    /\ \A i \in 1..6 : registry[i] = EmptyMap
    /\ currentVersion = 2
    /\ Cardinality(DOMAIN cache) >= 3
    /\ \A k \in DOMAIN cache : cache[k].version < currentVersion

====
